---- MODULE Spec2Model ----
(***************************************************************************)
(* Model of the host-assisted clone reconciler of                          *)
(* pkg/controller/clone-controller.go.                                     *)
(*                                                                         *)
(* The cluster is the object store the reconciler talks to: the target     *)
(* PVCs (annotations and finalizers), the source pods and the recorded     *)
(* events.  One Reconcile call is one action; the API call that fails in   *)
(* that call, if any, is an input of the action.  Strings that the code    *)
(* parses (the CloneRequest and PodRestarts annotations) are sequences of  *)
(* one-character strings, so that splitting and number conversion are      *)
(* computed and not assumed.                                               *)
(***************************************************************************)
EXTENDS Integers, Sequences, FiniteSets, TLC

VARIABLES
    pvcs,    \* the target PVC of each key, NoPVC when there is none
    pods,    \* the pod of each namespace and name, NoPod when there is none
    events,  \* the number of events recorded for the PVC of each key
    last,    \* the last step: who took it and, for Reconcile, what it returned
    input,   \* the arguments of a function applied on its own
    output   \* its result

vars == <<pvcs, pods, events, last, input, output>>

(***************************************************************************)
(* Bounds                                                                  *)
(***************************************************************************)
\* largest restart count a source pod's first container reaches
MaxRestarts == 1
\* largest number of CloneSucceeded events recorded for one PVC
MaxEvents == 2

(***************************************************************************)
(* Names                                                                   *)
(***************************************************************************)
AnnCloneRequest == "k8s.io/CloneRequest"
AnnCloneOf == "k8s.io/CloneOf"
AnnCloneToken == "cdi.kubevirt.io/storage.clone.token"
CloneSucceededPVC == "CloneSucceeded"
cloneSourcePodFinalizer == "cdi.kubevirt.io/cloneSource"
\* annotation keys declared in other files of the package
AnnPodPhase == "PodPhase"
AnnPodReady == "PodReady"
AnnPodRestarts == "PodRestarts"
AnnUploadClientName == "UploadClientName"
CloneUniqueID == "cdi.kubevirt.io/storage.clone.cloneUniqeId"
AnnOwnerRef == "ownerRef"
CloneTokenIssuer == "cdi-apiserver.clone"
UploadTokenIssuer == "cdi-apiserver.upload"
OperationClone == "Clone"
OperationUpload == "Upload"

\* the absent PVC, the absent pod and the nil pod pointer
NoPVC == [absent |-> "PVC"]
NoPod == [absent |-> "Pod"]
NoPodId == <<>>
\* the empty Go string, for annotations held as character sequences
EmptyStr == <<>>

\* the keys (namespaced names) of target PVCs the work queue can deliver
Keys == {"k1", "k2"}

\* the namespaces pods can live in
PodNamespaces == {<<"a">>, <<"b">>}

\* identity of the target PVC behind a key
TargetMeta(k) ==
    IF k = "k1" THEN [namespace |-> <<"p">>, name |-> <<"d">>, uid |-> <<"1">>]
                ELSE [namespace |-> <<"p">>, name |-> <<"e">>, uid |-> <<"2">>]

\* A storage request is a resource.Quantity, held as its number of
\* thousandths ("1" is 1000, "1500m" is 1500).
\* spec of every target PVC: storage request "1", volume mode not set
TargetSpec == [storage |-> 1000, volumeMode |-> "nil"]

\* the PVCs a clone request can name as its source (read by the reconciler,
\* never written)
SourcePVCs ==
    { [namespace |-> <<"a">>, name |-> <<"s">>,
       spec |-> [storage |-> 1000, volumeMode |-> "Filesystem"]],
      [namespace |-> <<"b">>, name |-> <<"s">>,
       spec |-> [storage |-> 1000, volumeMode |-> "nil"]],
      [namespace |-> <<"a">>, name |-> <<"t">>,
       spec |-> [storage |-> 2000, volumeMode |-> "Filesystem"]],
      [namespace |-> <<"b">>, name |-> <<"t">>,
       spec |-> [storage |-> 1000, volumeMode |-> "Block"]] }

(***************************************************************************)
(* Strings                                                                 *)
(***************************************************************************)
RECURSIVE Split(_, _)
\* strings.Split(s, sep) for a one-character separator
Split(s, sep) ==
    IF \A i \in 1..Len(s) : s[i] # sep
    THEN <<s>>
    ELSE LET i == CHOOSE j \in 1..Len(s) :
                      s[j] = sep /\ \A h \in 1..(j-1) : s[h] # sep
         IN <<SubSeq(s, 1, i-1)>> \o Split(SubSeq(s, i+1, Len(s)), sep)

Digits == <<"0", "1", "2", "3", "4", "5", "6", "7", "8", "9">>

DigitVal(c) == (CHOOSE i \in 1..10 : Digits[i] = c) - 1

IsDigit(c) == \E i \in 1..10 : Digits[i] = c

RECURSIVE Itoa(_)
\* strconv.Itoa for a non-negative number
Itoa(n) == IF n < 10 THEN <<Digits[n+1]>> ELSE Itoa(n \div 10) \o <<Digits[(n % 10) + 1]>>

RECURSIVE DigitsValue(_)
DigitsValue(s) ==
    IF Len(s) = 0 THEN 0
    ELSE 10 * DigitsValue(SubSeq(s, 1, Len(s)-1)) + DigitVal(s[Len(s)])

\* strconv.Atoi with its error dropped: 0 for anything that is not a number
Atoi(s) ==
    IF Len(s) > 0 /\ \A i \in 1..Len(s) : IsDigit(s[i]) THEN DigitsValue(s) ELSE 0

\* strconv.ParseBool: [ok, value]
ParseBool(s) ==
    IF s \in {"1", "t", "T", "TRUE", "true", "True"} THEN [ok |-> TRUE, value |-> TRUE]
    ELSE IF s \in {"0", "f", "F", "FALSE", "false", "False"} THEN [ok |-> TRUE, value |-> FALSE]
    ELSE [ok |-> FALSE, value |-> FALSE]

(***************************************************************************)
(* PVC objects                                                             *)
(***************************************************************************)
HasAnnotation(pvc, key) == key \in DOMAIN pvc.annotations

\* pvc.Annotations[key] for an annotation held as a plain string
Ann(pvc, key) == IF HasAnnotation(pvc, key) THEN pvc.annotations[key] ELSE ""

\* pvc.Annotations[key] for an annotation held as a character sequence
AnnSeq(pvc, key) == IF HasAnnotation(pvc, key) THEN pvc.annotations[key] ELSE EmptyStr

\* the annotations with key set to value
WithAnnotation(pvc, key, value) ==
    [pvc EXCEPT !.annotations =
        [a \in (DOMAIN pvc.annotations) \cup {key} |->
            IF a = key THEN value ELSE pvc.annotations[a]]]

\* the annotations without key
WithoutAnnotation(pvc, key) ==
    [pvc EXCEPT !.annotations =
        [a \in (DOMAIN pvc.annotations) \ {key} |-> pvc.annotations[a]]]

\* the nil error; an error is the sequence of the pieces of its message
Nil == <<>>

Errorf(msg) == <<msg>>

\* errors.Wrap(err, msg)
Wrap(err, msg) == <<msg, ": ">> \o err

\* the error of an API call that the object store did not serve
ApiFailure == Errorf("api failure")

\* the error of a get of an object that does not exist
NotFound == Errorf("not found")

\* err is, or wraps, the error of an API call that was not served
IsApiFailure(err) == err # Nil /\ err[Len(err)] = "api failure"

\* errors.Cause(err) for the error of an API call that was not served, and
\* err itself for any other
Cause(err) == IF IsApiFailure(err) THEN ApiFailure ELSE err

(***************************************************************************)
(* Tokens (pkg/token)                                                      *)
(***************************************************************************)
\* a validator that does not look at the issuer of the token
ValidateAnyIssuer(issuer, tok) ==
    IF tok.state = "ok"
    THEN [err |-> Nil, data |-> tok.data]
    ELSE [err |-> Errorf("token validation failed"), data |-> tok.data]

\* token.Validator.Validate for a validator built with the given issuer:
\* the payload of a well-formed, correctly signed token of that issuer whose
\* validity window contains the current time, and an error for any other
Validate(issuer, tok) ==
    IF tok.state = "ok" /\ tok.issuer = issuer
    THEN [err |-> Nil, data |-> tok.data]
    ELSE [err |-> Errorf("token validation failed"), data |-> tok.data]

\* tokenData.Params[key]
Param(data, key) == IF key \in DOMAIN data.params THEN data.params[key] ELSE EmptyStr

\* validateCloneToken without its test of the targetName parameter
validateCloneTokenAnyTargetName(source, target) ==
    IF ~HasAnnotation(target, AnnCloneToken)
    THEN Errorf("clone token missing")
    ELSE LET v == Validate(CloneTokenIssuer, target.annotations[AnnCloneToken])
             tokenData == v.data
         IN IF v.err # Nil
            THEN Wrap(v.err, "error verifying token")
            ELSE IF \/ tokenData.operation # OperationClone
                    \/ tokenData.name # source.name
                    \/ tokenData.namespace # source.namespace
                    \/ tokenData.resource # "persistentvolumeclaims"
                    \/ Param(tokenData, "targetNamespace") # target.namespace
                 THEN Errorf("invalid token")
                 ELSE Nil

validateCloneToken(source, target) ==
    IF ~HasAnnotation(target, AnnCloneToken)
    THEN Errorf("clone token missing")
    ELSE LET v == Validate(CloneTokenIssuer, target.annotations[AnnCloneToken])
             tokenData == v.data
         IN IF v.err # Nil
            THEN Wrap(v.err, "error verifying token")
            ELSE IF \/ tokenData.operation # OperationClone
                    \/ tokenData.name # source.name
                    \/ tokenData.namespace # source.namespace
                    \/ tokenData.resource # "persistentvolumeclaims"
                    \/ Param(tokenData, "targetNamespace") # target.namespace
                    \/ Param(tokenData, "targetName") # target.name
                 THEN Errorf("invalid token")
                 ELSE Nil

ParseCloneRequestAnnotation(pvc) ==
    IF ~HasAnnotation(pvc, AnnCloneRequest)
    THEN [exists |-> FALSE, namespace |-> EmptyStr, name |-> EmptyStr]
    ELSE LET sp == Split(pvc.annotations[AnnCloneRequest], "/")
         IN IF Len(sp) # 2
            THEN [exists |-> FALSE, namespace |-> EmptyStr, name |-> EmptyStr]
            ELSE [exists |-> TRUE, namespace |-> sp[1], name |-> sp[2]]

\* the volume mode the validation compares: Block only when set to Block
EffectiveVolumeMode(spec) == IF spec.volumeMode = "Block" THEN "Block" ELSE "Filesystem"

\* Quantity.Value of a request that is not negative: the quantity rounded up
\* to a whole number
Value(q) == (q + 999) \div 1000

\* ValidateCanCloneSourceAndTargetSpec with the volume modes compared as set
ValidateCanCloneSourceAndTargetSpecModeAsSet(sourceSpec, targetSpec) ==
    IF Value(sourceSpec.storage) > Value(targetSpec.storage)
    THEN Errorf("target resources requests storage size is smaller than the source")
    ELSE IF sourceSpec.volumeMode # targetSpec.volumeMode
         THEN <<"source volumeMode (", sourceSpec.volumeMode,
                ") and target volumeMode (", targetSpec.volumeMode,
                ") do not match">>
         ELSE Nil

ValidateCanCloneSourceAndTargetSpec(sourceSpec, targetSpec) ==
    IF Value(sourceSpec.storage) > Value(targetSpec.storage)
    THEN Errorf("target resources requests storage size is smaller than the source")
    ELSE IF EffectiveVolumeMode(sourceSpec) # EffectiveVolumeMode(targetSpec)
         THEN <<"source volumeMode (", EffectiveVolumeMode(sourceSpec),
                ") and target volumeMode (", EffectiveVolumeMode(targetSpec),
                ") do not match">>
         ELSE Nil

(***************************************************************************)
(* The object store                                                        *)
(***************************************************************************)
getCloneSourcePodName(targetPvc) == targetPvc.uid \o <<"-source-pod">>

PodNames == {getCloneSourcePodName(TargetMeta(k)) : k \in Keys}

\* a pod is stored under its namespace and name
PodIds == PodNamespaces \X PodNames

\* the target PVC object of key k as its creator submits it
NewPVC(k, annotations) ==
    [namespace |-> TargetMeta(k).namespace, name |-> TargetMeta(k).name,
     uid |-> TargetMeta(k).uid, annotations |-> annotations,
     finalizers |-> <<"kubernetes.io/pvc-protection">>, spec |-> TargetSpec,
     deleting |-> FALSE]

\* client.List without the label selector
ListPodsAnyLabel(store, namespace, labelValue) ==
    {id \in PodIds : /\ store[id] # NoPod
                     /\ (namespace = EmptyStr \/ id[1] = namespace)}

\* client.List of the pods of a namespace (all namespaces when it is empty)
\* that carry the label: the ids of the pods found
ListPods(store, namespace, labelValue) ==
    {id \in PodIds : /\ store[id] # NoPod
                     /\ (namespace = EmptyStr \/ id[1] = namespace)
                     /\ store[id].labels[CloneUniqueID] = labelValue}

\* client.Get of a source PVC: the set holding it, empty when not found
GetSourcePVC(namespace, name) ==
    {p \in SourcePVCs : p.namespace = namespace /\ p.name = name}

\* client.Delete accepted for a pod: the pod is marked for deletion
DeletePod(store, id) == [store EXCEPT ![id].deleting = TRUE]

(***************************************************************************)
(* The reconciler                                                          *)
(***************************************************************************)
\* the API calls of one Reconcile call that an input can make fail
Failures == {"none", "get", "list", "getsource", "cert", "create", "update",
             "delete", "deleteNotFound"}

\* checkPVC of the package's util.go: the PVC carries the annotation
checkPVC(pvc, annotation) == HasAnnotation(pvc, annotation)

\* podSucceededFromPVC of the package's util.go
podSucceededFromPVC(pvc) == Ann(pvc, AnnPodPhase) = "Succeeded"

\* shouldReconcile without its test of CloneOf
shouldReconcileIgnoringCloneOf(pvc) == checkPVC(pvc, AnnCloneRequest)

shouldReconcile(pvc) == checkPVC(pvc, AnnCloneRequest) /\ ~HasAnnotation(pvc, AnnCloneOf)

hasFinalizer(object, value) == \E i \in 1..Len(object.finalizers) : object.finalizers[i] = value

\* addFinalizer without its test of hasFinalizer
addFinalizerAgain(pvc, name) == [pvc EXCEPT !.finalizers = Append(pvc.finalizers, name)]

addFinalizer(pvc, name) ==
    IF hasFinalizer(pvc, name) THEN pvc
    ELSE [pvc EXCEPT !.finalizers = Append(pvc.finalizers, name)]

\* removeFinalizer that returns the PVC as it got it
removeFinalizerKeeps(pvc, name) == pvc

removeFinalizer(pvc, name) ==
    IF ~hasFinalizer(pvc, name) THEN pvc
    ELSE [pvc EXCEPT !.finalizers = SelectSeq(pvc.finalizers, LAMBDA f : f # name)]

\* waitTargetPodRunningOrSucceeded that reports a PVC without PodReady as ready
waitTargetPodRunningOrSucceededAbsentReady(pvc) ==
    IF ~HasAnnotation(pvc, AnnPodReady)
    THEN [ready |-> TRUE, err |-> Nil]
    ELSE LET b == ParseBool(pvc.annotations[AnnPodReady])
         IN IF ~b.ok
            THEN [ready |-> FALSE, err |-> <<"error parsing ", AnnPodReady, " annotation">>]
            ELSE IF ~b.value
                 THEN [ready |-> podSucceededFromPVC(pvc), err |-> Nil]
                 ELSE [ready |-> TRUE, err |-> Nil]

\* [ready, err]
waitTargetPodRunningOrSucceeded(pvc) ==
    IF ~HasAnnotation(pvc, AnnPodReady)
    THEN [ready |-> FALSE, err |-> Nil]
    ELSE LET b == ParseBool(pvc.annotations[AnnPodReady])
         IN IF ~b.ok
            THEN [ready |-> FALSE, err |-> <<"error parsing ", AnnPodReady, " annotation">>]
            ELSE IF ~b.value
                 THEN [ready |-> podSucceededFromPVC(pvc), err |-> Nil]
                 ELSE [ready |-> TRUE, err |-> Nil]

\* findCloneSourcePod that takes one of the pods when it finds several
findCloneSourcePodTakesOne(store, pvc, fail) ==
    LET req == ParseCloneRequestAnnotation(pvc)
        items == ListPods(store, req.namespace, pvc.uid \o <<"-source-pod">>)
    IN IF ~req.exists
       THEN [pod |-> NoPodId, err |-> Nil]
       ELSE IF fail = "list"
            THEN [pod |-> NoPodId, err |-> Wrap(ApiFailure, "error listing pods")]
            ELSE IF Cardinality(items) = 0
                 THEN [pod |-> NoPodId, err |-> Nil]
                 ELSE [pod |-> CHOOSE id \in items : TRUE, err |-> Nil]

\* [pod, err]: pod is the id of the pod found, or NoPodId
findCloneSourcePod(store, pvc, fail) ==
    LET req == ParseCloneRequestAnnotation(pvc)
        items == ListPods(store, req.namespace, pvc.uid \o <<"-source-pod">>)
    IN IF ~req.exists
       THEN [pod |-> NoPodId, err |-> Nil]
       ELSE IF fail = "list"
            THEN [pod |-> NoPodId, err |-> Wrap(ApiFailure, "error listing pods")]
            ELSE IF Cardinality(items) > 1
                 THEN [pod |-> NoPodId, err |-> Errorf("multiple source pods found for clone PVC")]
                 ELSE IF Cardinality(items) = 0
                      THEN [pod |-> NoPodId, err |-> Nil]
                      ELSE [pod |-> CHOOSE id \in items : TRUE, err |-> Nil]

\* [pvc, err]: the source PVC the clone request names
getCloneRequestSourcePVC(pvc, fail) ==
    LET req == ParseCloneRequestAnnotation(pvc)
        got == GetSourcePVC(req.namespace, req.name)
    IN IF ~req.exists
       THEN [pvc |-> NoPVC, err |-> Errorf("error parsing clone request annotation")]
       ELSE IF fail = "getsource"
            THEN [pvc |-> NoPVC, err |-> Wrap(ApiFailure, "error getting clone source PVC")]
            ELSE IF got = {}
            THEN [pvc |-> NoPVC, err |-> Wrap(NotFound, "error getting clone source PVC")]
            ELSE [pvc |-> CHOOSE p \in got : TRUE, err |-> Nil]

validateSourceAndTarget(targetPvc, fail) ==
    LET src == getCloneRequestSourcePVC(targetPvc, fail)
    IN IF src.err # Nil THEN src.err
       ELSE IF validateCloneToken(src.pvc, targetPvc) # Nil
            THEN validateCloneToken(src.pvc, targetPvc)
            ELSE ValidateCanCloneSourceAndTargetSpec(src.pvc.spec, targetPvc.spec)

\* the pod MakeCloneSourcePodSpec builds, as far as the reconciler reads it
MakeCloneSourcePodSpec(sourcePvcName, sourcePvcNamespace, ownerRefAnno, targetPvc) ==
    [name |-> getCloneSourcePodName(targetPvc),
     namespace |-> sourcePvcNamespace,
     annotations |-> [a \in {AnnOwnerRef} |-> ownerRefAnno],
     labels |-> [l \in {CloneUniqueID} |-> getCloneSourcePodName(targetPvc)],
     claimName |-> sourcePvcName,
     ownerReferences |-> <<>>,
     phase |-> "Pending",
     deleting |-> FALSE,
     containerStatuses |-> <<>>]

\* [pods, err]
CreateCloneSourcePod(store, pvc, fail) ==
    LET req == ParseCloneRequestAnnotation(pvc)
        pod == MakeCloneSourcePodSpec(req.name, req.namespace,
                                      pvc.namespace \o <<"/">> \o pvc.name, pvc)
        id == <<pod.namespace, pod.name>>
    IN IF ~req.exists
       THEN [pods |-> store, err |-> Errorf("bad CloneRequest Annotation")]
       ELSE IF fail = "cert"
            THEN [pods |-> store, err |-> ApiFailure]
            ELSE IF fail = "create" \/ id \notin PodIds \/ store[id] # NoPod
                 THEN [pods |-> store, err |-> Wrap(ApiFailure, "source pod API create errored")]
                 ELSE [pods |-> [store EXCEPT ![id] = pod], err |-> Nil]

\* reconcileSourcePod without its call of validateSourceAndTarget
reconcileSourcePodUnvalidated(sourcePod, store, pvc, fail) ==
    IF sourcePod # NoPodId
    THEN [pods |-> store, err |-> Nil]
    ELSE IF ~HasAnnotation(pvc, AnnUploadClientName)
         THEN [pods |-> store, err |-> <<"PVC missing required ", AnnUploadClientName, " annotation">>]
         ELSE CreateCloneSourcePod(store, pvc, fail)

\* [pods, err]
reconcileSourcePod(sourcePod, store, pvc, fail) ==
    IF sourcePod # NoPodId
    THEN [pods |-> store, err |-> Nil]
    ELSE IF validateSourceAndTarget(pvc, fail) # Nil
         THEN [pods |-> store, err |-> validateSourceAndTarget(pvc, fail)]
         ELSE IF ~HasAnnotation(pvc, AnnUploadClientName)
              THEN [pods |-> store, err |-> <<"PVC missing required ", AnnUploadClientName, " annotation">>]
              ELSE CreateCloneSourcePod(store, pvc, fail)

\* PvcFromPod that records the restart count of the pod whenever it differs
PvcFromPodLatestRestarts(sourcePod, store, pvc) ==
    LET p1 == addFinalizer(pvc, cloneSourcePodFinalizer)
        succeeded == podSucceededFromPVC(p1) /\ Ann(p1, AnnCloneOf) # "true"
        p2 == IF succeeded THEN WithAnnotation(p1, AnnCloneOf, "true") ELSE p1
        annPodRestarts == Atoi(AnnSeq(p2, AnnPodRestarts))
        hasStatus == sourcePod # NoPodId /\ store[sourcePod].containerStatuses # <<>>
        podRestarts == IF hasStatus THEN store[sourcePod].containerStatuses[1] ELSE 0
    IN [pvc |-> IF hasStatus /\ podRestarts # annPodRestarts
                THEN WithAnnotation(p2, AnnPodRestarts, Itoa(podRestarts))
                ELSE p2,
        event |-> succeeded]

\* the PVC object updatePvcFromPod ends with, before it decides to write it
PvcFromPod(sourcePod, store, pvc) ==
    LET p1 == addFinalizer(pvc, cloneSourcePodFinalizer)
        succeeded == podSucceededFromPVC(p1) /\ Ann(p1, AnnCloneOf) # "true"
        p2 == IF succeeded THEN WithAnnotation(p1, AnnCloneOf, "true") ELSE p1
        annPodRestarts == Atoi(AnnSeq(p2, AnnPodRestarts))
        hasStatus == sourcePod # NoPodId /\ store[sourcePod].containerStatuses # <<>>
        podRestarts == IF hasStatus THEN store[sourcePod].containerStatuses[1] ELSE 0
    IN [pvc |-> IF hasStatus /\ podRestarts > annPodRestarts
                THEN WithAnnotation(p2, AnnPodRestarts, Itoa(podRestarts))
                ELSE p2,
        event |-> succeeded]

\* updatePvcFromPod that writes the PVC whether or not it has changed
updatePvcFromPodAlwaysWrites(sourcePod, store, pvc, fail) ==
    LET r == PvcFromPod(sourcePod, store, pvc)
        n == IF r.event THEN 1 ELSE 0
    IN IF fail = "update"
       THEN [stored |-> pvc, events |-> n, err |-> ApiFailure]
       ELSE [stored |-> r.pvc, events |-> n, err |-> Nil]

\* [stored, events, err]: stored is the PVC in the store after the call,
\* events the number of CloneSucceeded events the call records
updatePvcFromPod(sourcePod, store, pvc, fail) ==
    LET r == PvcFromPod(sourcePod, store, pvc)
        n == IF r.event THEN 1 ELSE 0
    IN IF r.pvc # pvc
       THEN IF fail = "update"
            THEN [stored |-> pvc, events |-> n, err |-> ApiFailure]
            ELSE [stored |-> r.pvc, events |-> n, err |-> Nil]
       ELSE [stored |-> pvc, events |-> n, err |-> Nil]

\* cleanup that waits for every running source pod, whatever the PodPhase
cleanupWaitsForRunning(store, pvc, fail) ==
    LET found == findCloneSourcePod(store, pvc, fail)
        live == found.pod # NoPodId /\ ~store[found.pod].deleting
        afterDelete ==
            IF ~live THEN store
            ELSE IF fail = "deleteNotFound"
                 THEN [store EXCEPT ![found.pod] = NoPod]
                 ELSE DeletePod(store, found.pod)
    IN IF found.err # Nil
       THEN [stored |-> pvc, pods |-> store, err |-> found.err]
       ELSE IF live /\ store[found.pod].phase = "Running"
            THEN [stored |-> pvc, pods |-> store, err |-> Nil]
            ELSE IF live /\ fail = "delete"
                 THEN [stored |-> pvc, pods |-> store,
                       err |-> Wrap(ApiFailure, "error deleting clone source pod")]
                 ELSE IF fail = "update"
                      THEN [stored |-> pvc, pods |-> afterDelete,
                            err |-> ApiFailure]
                      ELSE [stored |-> removeFinalizer(pvc, cloneSourcePodFinalizer),
                            pods |-> afterDelete, err |-> Nil]

\* cleanup that ignores every error of the delete
cleanupIgnoresDeleteErrors(store, pvc, fail) ==
    LET found == findCloneSourcePod(store, pvc, fail)
        live == found.pod # NoPodId /\ ~store[found.pod].deleting
        afterDelete ==
            IF ~live \/ fail = "delete" THEN store
            ELSE IF fail = "deleteNotFound"
                 THEN [store EXCEPT ![found.pod] = NoPod]
                 ELSE DeletePod(store, found.pod)
    IN IF found.err # Nil
       THEN [stored |-> pvc, pods |-> store, err |-> found.err]
       ELSE IF live /\ podSucceededFromPVC(pvc) /\ store[found.pod].phase = "Running"
            THEN [stored |-> pvc, pods |-> store, err |-> Nil]
            ELSE IF fail = "update"
                 THEN [stored |-> pvc, pods |-> afterDelete,
                       err |-> ApiFailure]
                 ELSE [stored |-> removeFinalizer(pvc, cloneSourcePodFinalizer),
                       pods |-> afterDelete, err |-> Nil]

\* [stored, pods, err]
cleanup(store, pvc, fail) ==
    LET found == findCloneSourcePod(store, pvc, fail)
        live == found.pod # NoPodId /\ ~store[found.pod].deleting
        afterDelete ==
            IF ~live THEN store
            ELSE IF fail = "deleteNotFound"
                 THEN [store EXCEPT ![found.pod] = NoPod]
                 ELSE DeletePod(store, found.pod)
    IN IF found.err # Nil
       THEN [stored |-> pvc, pods |-> store, err |-> found.err]
       ELSE IF live /\ podSucceededFromPVC(pvc) /\ store[found.pod].phase = "Running"
            THEN [stored |-> pvc, pods |-> store, err |-> Nil]
            ELSE IF live /\ fail = "delete"
                 THEN [stored |-> pvc, pods |-> store,
                       err |-> Wrap(ApiFailure, "error deleting clone source pod")]
                 ELSE IF fail = "update"
                      THEN [stored |-> pvc, pods |-> afterDelete,
                            err |-> ApiFailure]
                      ELSE [stored |-> removeFinalizer(pvc, cloneSourcePodFinalizer),
                            pods |-> afterDelete, err |-> Nil]

\* the create/update path of Reconcile for a PVC that should be reconciled:
\* [stored, pods, events, err]
ReconcileClone(store, pvc, fail) ==
    LET w == waitTargetPodRunningOrSucceeded(pvc)
        found == findCloneSourcePod(store, pvc, fail)
        rs == reconcileSourcePod(found.pod, store, pvc, fail)
        up == updatePvcFromPod(found.pod, rs.pods, pvc, fail)
        same == [stored |-> pvc, pods |-> store, events |-> 0, err |-> Nil]
    IN IF w.err # Nil
       THEN [same EXCEPT !.err = Wrap(w.err, "error ensuring target upload pod running")]
       ELSE IF ~w.ready THEN same
       ELSE IF found.err # Nil THEN [same EXCEPT !.err = found.err]
       ELSE IF rs.err # Nil THEN [same EXCEPT !.err = rs.err]
       ELSE [stored |-> up.stored, pods |-> rs.pods, events |-> up.events, err |-> up.err]

\* Reconcile that returns at once for every PVC that is not relevant
ReconcileOnSkipsCleanup(pv, po, k, fail) ==
    LET pvc == pv[k]
        same == [stored |-> pvc, pods |-> po, events |-> 0, err |-> Nil]
    IN IF fail = "get" THEN [same EXCEPT !.err = ApiFailure]
       ELSE IF pvc = NoPVC THEN same
       ELSE IF ~shouldReconcile(pvc) THEN same
       ELSE ReconcileClone(po, pvc, fail)

\* what one Reconcile call for key k does to a store holding the PVCs pv and
\* the pods po, and what it returns: [stored, pods, events, err], where stored
\* is the PVC of k after the call, events the number of events the call
\* records and err the error it returns
ReconcileOn(pv, po, k, fail) ==
    LET pvc == pv[k]
        same == [stored |-> pvc, pods |-> po, events |-> 0, err |-> Nil]
        c == cleanup(po, pvc, fail)
    IN IF fail = "get" THEN [same EXCEPT !.err = ApiFailure]
       ELSE IF pvc = NoPVC THEN same
       ELSE IF ~shouldReconcile(pvc)
            THEN IF hasFinalizer(pvc, cloneSourcePodFinalizer)
                 THEN [stored |-> c.stored, pods |-> c.pods, events |-> 0, err |-> c.err]
                 ELSE same
            ELSE ReconcileClone(po, pvc, fail)

\* the store and the record of the last step after a Reconcile call for key k
\* that did r
Reconciled(k, r) ==
    /\ events[k] + r.events <= MaxEvents
    /\ pvcs' = [pvcs EXCEPT ![k] = r.stored]
    /\ pods' = r.pods
    /\ events' = [events EXCEPT ![k] = @ + r.events]
    /\ last' = [op |-> "Reconcile", key |-> k, err |-> Cause(r.err),
                cloneOfSet |-> /\ r.stored # NoPVC
                               /\ HasAnnotation(r.stored, AnnCloneOf)
                               /\ ~HasAnnotation(pvcs[k], AnnCloneOf)]
    /\ UNCHANGED <<input, output>>

\* CloneReconciler.Reconcile for the request of key k
Reconcile(k, fail) ==
    \E r \in {ReconcileOn(pvcs, pods, k, fail)} : Reconciled(k, r)

(***************************************************************************)
(* The environment: the user, the upload controller and the kubelet        *)
(***************************************************************************)
\* the CloneRequest value "<namespace>/<name>"
CloneRequestOf(namespace, name) == namespace \o <<"/">> \o name

\* a token as the apiserver issues it
Token(issuer, operation, namespace, name, targetNamespace, targetName) ==
    [state |-> "ok", issuer |-> issuer,
     data |-> [operation |-> operation, name |-> name, namespace |-> namespace,
               resource |-> "persistentvolumeclaims",
               params |-> [targetNamespace |-> targetNamespace, targetName |-> targetName]]]

\* the clone token the apiserver issues for cloning namespace/name into key k
CloneTokenFor(namespace, name, k) ==
    Token(CloneTokenIssuer, OperationClone, namespace, name,
          TargetMeta(k).namespace, TargetMeta(k).name)

\* annotations a user gives the PVC of key k to ask for a clone (CloneRequest,
\* CloneToken and UploadClientName): each of these sets holds requests that
\* pass validation and requests that fail it
ask(r, t) ==
    (AnnCloneRequest :> r) @@ (AnnCloneToken :> t) @@ (AnnUploadClientName :> "ci")

UserAnnotations(k) ==
    LET a == <<"a">>
        b == <<"b">>
        s == <<"s">>
        t == <<"t">>
    IN { \* valid requests for two sources
         ask(CloneRequestOf(a, s), CloneTokenFor(a, s, k)),
         ask(CloneRequestOf(b, s), CloneTokenFor(b, s, k)),
         \* source larger than the target
         ask(CloneRequestOf(a, t), CloneTokenFor(a, t, k)),
         \* token for another target name
         ask(CloneRequestOf(a, s),
             Token(CloneTokenIssuer, OperationClone, a, s, TargetMeta(k).namespace, <<"x">>)),
         \* no client name
         (AnnCloneRequest :> CloneRequestOf(a, s)) @@ (AnnCloneToken :> CloneTokenFor(a, s, k)),
         \* requests that do not name a namespace and a name
         ask(CloneRequestOf(<<>>, s), CloneTokenFor(a, s, k)),
         ask(<<"a", "s">>, CloneTokenFor(a, s, k)),
         \* the request removed
         (AnnCloneToken :> CloneTokenFor(a, s, k)) @@ (AnnUploadClientName :> "ci") }

\* further requests that fail validation
InvalidAnnotations(k) ==
    LET a == <<"a">>
        b == <<"b">>
        c == <<"c">>
        s == <<"s">>
        t == <<"t">>
    IN { \* source of another volume mode, no source
         ask(CloneRequestOf(b, t), CloneTokenFor(b, t, k)),
         ask(CloneRequestOf(c, s), CloneTokenFor(c, s, k)),
         \* no token, badly signed token, tokens bound to other objects
         (AnnCloneRequest :> CloneRequestOf(a, s)) @@ (AnnUploadClientName :> "ci"),
         ask(CloneRequestOf(a, s), [CloneTokenFor(a, s, k) EXCEPT !.state = "bad signature"]),
         ask(CloneRequestOf(a, s), CloneTokenFor(b, s, k)),
         ask(CloneRequestOf(a, s),
             Token(CloneTokenIssuer, OperationClone, a, s, <<"x">>, TargetMeta(k).name)),
         ask(CloneRequestOf(a, s),
             Token(UploadTokenIssuer, OperationUpload, a, s,
                   TargetMeta(k).namespace, TargetMeta(k).name)) }

\* the PodReady and PodPhase annotations the upload controller writes
UploadPodAnnotations ==
    LET both(r, p) == (AnnPodReady :> r) @@ (AnnPodPhase :> p)
    IN { both("false", "Pending"), both("true", "Running"),
         both("false", "Succeeded"), both("true", "Succeeded") }

\* the annotations of pvc with those of keys replaced by the ones in new
ReplaceAnnotations(pvc, keys, new) ==
    [pvc EXCEPT !.annotations =
        [a \in ((DOMAIN pvc.annotations) \ keys) \cup DOMAIN new |->
            IF a \in DOMAIN new THEN new[a] ELSE pvc.annotations[a]]]

External == [op |-> "external", key |-> "", err |-> Nil, cloneOfSet |-> FALSE]

\* the user creates the target PVC
CreatePVC(k, annotations) ==
    /\ pvcs[k] = NoPVC
    /\ pvcs' = [pvcs EXCEPT ![k] = NewPVC(k, annotations)]
    /\ last' = External
    /\ UNCHANGED <<pods, events, input, output>>

\* the user edits the clone request of the PVC
EditCloneRequest(k, new) ==
    /\ pvcs[k] # NoPVC
    /\ pvcs' = [pvcs EXCEPT ![k] =
                   ReplaceAnnotations(pvcs[k],
                       {AnnCloneRequest, AnnCloneToken, AnnUploadClientName}, new)]
    /\ pvcs' # pvcs
    /\ last' = External
    /\ UNCHANGED <<pods, events, input, output>>

\* the upload controller reports the state of the target's upload pod
UploadPodReport(k, new) ==
    /\ pvcs[k] # NoPVC
    /\ pvcs' = [pvcs EXCEPT ![k] =
                   ReplaceAnnotations(pvcs[k], {AnnPodReady, AnnPodPhase}, new)]
    /\ pvcs' # pvcs
    /\ last' = External
    /\ UNCHANGED <<pods, events, input, output>>

\* the kubelet starts the container of a source pod
PodStarts(id) ==
    /\ pods[id] # NoPod
    /\ pods[id].phase = "Pending"
    /\ pods' = [pods EXCEPT ![id].phase = "Running", ![id].containerStatuses = <<0>>]
    /\ last' = External
    /\ UNCHANGED <<pvcs, events, input, output>>

\* the container of a source pod fails and is restarted (RestartPolicy OnFailure)
PodRestarts(id) ==
    /\ pods[id] # NoPod
    /\ pods[id].phase = "Running"
    /\ pods[id].containerStatuses[1] < MaxRestarts
    /\ pods' = [pods EXCEPT ![id].containerStatuses = <<@[1] + 1>>]
    /\ last' = External
    /\ UNCHANGED <<pvcs, events, input, output>>

\* the container of a source pod exits with success
PodExits(id) ==
    /\ pods[id] # NoPod
    /\ pods[id].phase = "Running"
    /\ pods' = [pods EXCEPT ![id].phase = "Succeeded"]
    /\ last' = External
    /\ UNCHANGED <<pvcs, events, input, output>>

\* a source pod whose deletion was accepted is gone
PodRemoved(id) ==
    /\ pods[id] # NoPod
    /\ pods[id].deleting
    /\ pods' = [pods EXCEPT ![id] = NoPod]
    /\ last' = External
    /\ UNCHANGED <<pvcs, events, input, output>>

(***************************************************************************)
(* Specification                                                           *)
(***************************************************************************)
\* the annotations a target PVC is created with
InitialAnnotations == {<<>>, (AnnCloneOf :> "false")}

\* no function is being applied on its own
NoCall == [fn |-> "none"]

Init ==
    /\ pvcs = [k \in Keys |-> NoPVC]
    /\ pods = [id \in PodIds |-> NoPod]
    /\ events = [k \in Keys |-> 0]
    /\ last = [op |-> "init", key |-> "", err |-> Nil, cloneOfSet |-> FALSE]
    /\ input = NoCall
    /\ output = NoCall

\* the keys of the target PVCs of Spec
SpecKeys == {"k1"}

Next ==
    \/ \E k \in SpecKeys, a \in InitialAnnotations : CreatePVC(k, a)
    \/ \E k \in SpecKeys, fail \in Failures : Reconcile(k, fail)
    \/ \E k \in SpecKeys : \E new \in UserAnnotations(k) : EditCloneRequest(k, new)
    \/ \E k \in SpecKeys, new \in UploadPodAnnotations : UploadPodReport(k, new)
    \/ \E id \in PodIds : PodStarts(id)
    \/ \E id \in PodIds : PodExits(id)
    \/ \E id \in PodIds : PodRemoved(id)

Spec == Init /\ [][Next]_vars

(***************************************************************************)
(* Source pods whose container is restarted                                *)
(***************************************************************************)
\* the requests of a user who asks for a clone of a/s, moves the request to
\* b/s, or takes it back
RestartAnnotations(k) ==
    { ask(CloneRequestOf(<<"a">>, <<"s">>), CloneTokenFor(<<"a">>, <<"s">>, k)),
      ask(CloneRequestOf(<<"b">>, <<"s">>), CloneTokenFor(<<"b">>, <<"s">>, k)),
      (AnnCloneToken :> CloneTokenFor(<<"a">>, <<"s">>, k)) @@ (AnnUploadClientName :> "ci") }

NextRestarts ==
    \/ \E k \in SpecKeys : CreatePVC(k, <<>>)
    \/ \E k \in SpecKeys, fail \in Failures : Reconcile(k, fail)
    \/ \E k \in SpecKeys : \E new \in RestartAnnotations(k) : EditCloneRequest(k, new)
    \/ \E k \in SpecKeys, new \in UploadPodAnnotations : UploadPodReport(k, new)
    \/ \E id \in PodIds : PodStarts(id)
    \/ \E id \in PodIds : PodRestarts(id)
    \/ \E id \in PodIds : PodExits(id)
    \/ \E id \in PodIds : PodRemoved(id)

SpecRestarts == Init /\ [][NextRestarts]_vars

(***************************************************************************)
(* The watches of the controller and its work queue.  The variable output  *)
(* holds the queue: the reconcile requests that wait to be processed.      *)
(***************************************************************************)
\* the reconcile request of the target PVC of key k: its namespaced name
RequestOf(k) == [namespace |-> TargetMeta(k).namespace, name |-> TargetMeta(k).name]

\* handler.EnqueueRequestForObject: the request of the object of the event
EnqueueRequestForObject(object) ==
    {[namespace |-> object.namespace, name |-> object.name]}

\* handler.EnqueueRequestForOwner with OwnerType PersistentVolumeClaim and
\* IsController: a request, in the namespace of the object, for the owner
\* reference of the object that is its controller and is a PVC
EnqueueRequestForOwner(object) ==
    {[namespace |-> object.namespace, name |-> object.ownerReferences[i].name] :
        i \in {j \in 1..Len(object.ownerReferences) :
                  /\ object.ownerReferences[j].controller
                  /\ object.ownerReferences[j].kind = "PersistentVolumeClaim"}}

\* the queue with the requests added
Enqueued(queue, requests) == [queue EXCEPT !.requests = @ \cup requests]

\* the requests the pod watch adds for the pods that differ between two stores
PodEvents(before, after) ==
    UNION {EnqueueRequestForOwner(IF after[id] # NoPod THEN after[id] ELSE before[id]) :
              id \in {i \in PodIds : before[i] # after[i]}}

InitWatch ==
    /\ pvcs = [k \in Keys |-> NoPVC]
    /\ pods = [id \in PodIds |-> NoPod]
    /\ events = [k \in Keys |-> 0]
    /\ last = [op |-> "init", key |-> "", err |-> Nil, cloneOfSet |-> FALSE]
    /\ input = NoCall
    /\ output = [fn |-> "workqueue", requests |-> {}]

\* the user creates the target PVC; the PVC watch sees it
WatchCreatePVC(k) ==
    /\ pvcs[k] = NoPVC
    /\ pvcs' = [pvcs EXCEPT ![k] = NewPVC(k, <<>>)]
    /\ last' = External
    /\ output' = Enqueued(output, EnqueueRequestForObject(pvcs'[k]))
    /\ UNCHANGED <<pods, events, input>>

\* the user edits the clone request of the PVC; the PVC watch sees it
WatchEditCloneRequest(k, new) ==
    /\ pvcs[k] # NoPVC
    /\ pvcs' = [pvcs EXCEPT ![k] =
                   ReplaceAnnotations(pvcs[k],
                       {AnnCloneRequest, AnnCloneToken, AnnUploadClientName}, new)]
    /\ pvcs' # pvcs
    /\ last' = External
    /\ output' = Enqueued(output, EnqueueRequestForObject(pvcs'[k]))
    /\ UNCHANGED <<pods, events, input>>

\* the upload controller reports the state of the upload pod; the PVC watch
\* sees it
WatchUploadPodReport(k, new) ==
    /\ pvcs[k] # NoPVC
    /\ pvcs' = [pvcs EXCEPT ![k] =
                   ReplaceAnnotations(pvcs[k], {AnnPodReady, AnnPodPhase}, new)]
    /\ pvcs' # pvcs
    /\ last' = External
    /\ output' = Enqueued(output, EnqueueRequestForObject(pvcs'[k]))
    /\ UNCHANGED <<pods, events, input>>

\* the state of a source pod changes (its container starts or exits, or the
\* pod is gone after its deletion); the pod watch sees it
WatchPodChange(id) ==
    /\ pods[id] # NoPod
    /\ \/ /\ pods[id].phase = "Pending"
          /\ pods' = [pods EXCEPT ![id].phase = "Running", ![id].containerStatuses = <<0>>]
       \/ /\ pods[id].phase = "Running"
          /\ pods' = [pods EXCEPT ![id].phase = "Succeeded"]
       \/ /\ pods[id].deleting
          /\ pods' = [pods EXCEPT ![id] = NoPod]
    /\ last' = External
    /\ output' = Enqueued(output, PodEvents(pods, pods'))
    /\ UNCHANGED <<pvcs, events, input>>

\* a worker takes the request of key k from the queue and calls Reconcile;
\* the request is queued again when Reconcile returns an error, and the
\* watches see what the call wrote
ProcessRequest(k, fail) ==
    /\ RequestOf(k) \in output.requests
    /\ \E r \in {ReconcileOn(pvcs, pods, k, fail)} :
          /\ events[k] + r.events <= MaxEvents
          /\ pvcs' = [pvcs EXCEPT ![k] = r.stored]
          /\ pods' = r.pods
          /\ events' = [events EXCEPT ![k] = @ + r.events]
          /\ last' = [op |-> "Reconcile", key |-> k, err |-> Cause(r.err),
                      cloneOfSet |-> /\ r.stored # NoPVC
                                     /\ HasAnnotation(r.stored, AnnCloneOf)
                                     /\ ~HasAnnotation(pvcs[k], AnnCloneOf)]
          /\ output' = [output EXCEPT !.requests =
                           (@ \ {RequestOf(k)})
                           \cup (IF r.err # Nil THEN {RequestOf(k)} ELSE {})
                           \cup (IF r.stored # pvcs[k]
                                 THEN EnqueueRequestForObject(r.stored) ELSE {})
                           \cup PodEvents(pods, r.pods)]
    /\ UNCHANGED input

NextWatch ==
    \/ \E k \in SpecKeys : WatchCreatePVC(k)
    \/ \E k \in SpecKeys : \E new \in RestartAnnotations(k) : WatchEditCloneRequest(k, new)
    \/ \E k \in SpecKeys, new \in UploadPodAnnotations : WatchUploadPodReport(k, new)
    \/ \E id \in PodIds : WatchPodChange(id)
    \/ \E k \in SpecKeys, fail \in Failures : ProcessRequest(k, fail)

SpecWatch == InitWatch /\ [][NextWatch]_vars

(***************************************************************************)
(* Two target PVCs that clone the same source PVC a/s                      *)
(***************************************************************************)
\* the request of the user of key k: a clone of a/s
TwoAnnotations(k) ==
    { ask(CloneRequestOf(<<"a">>, <<"s">>), CloneTokenFor(<<"a">>, <<"s">>, k)) }

\* the reports of an upload pod that runs and then succeeds
TwoUploadPodAnnotations ==
    { (AnnPodReady :> "true") @@ (AnnPodPhase :> "Running"),
      (AnnPodReady :> "false") @@ (AnnPodPhase :> "Succeeded") }

NextTwo ==
    \/ \E k \in Keys : CreatePVC(k, <<>>)
    \/ \E k \in Keys, fail \in Failures : Reconcile(k, fail)
    \/ \E k \in Keys : \E new \in TwoAnnotations(k) : EditCloneRequest(k, new)
    \/ \E k \in Keys, new \in TwoUploadPodAnnotations : UploadPodReport(k, new)
    \/ \E id \in PodIds : PodStarts(id)
    \/ \E id \in PodIds : PodRemoved(id)

SpecTwo == Init /\ [][NextTwo]_vars

(***************************************************************************)
(* Requests that fail validation                                           *)
(***************************************************************************)
\* the requests a user makes, the valid ones and those failing validation in
\* each of its ways
ValidateAnnotations(k) == UserAnnotations(k) \cup InvalidAnnotations(k)

NextValidate ==
    \/ \E k \in SpecKeys, a \in InitialAnnotations : CreatePVC(k, a)
    \/ \E k \in SpecKeys, fail \in Failures : Reconcile(k, fail)
    \/ \E k \in SpecKeys : \E new \in ValidateAnnotations(k) : EditCloneRequest(k, new)
    \/ \E k \in SpecKeys, new \in UploadPodAnnotations : UploadPodReport(k, new)
    \/ \E id \in PodIds : PodRemoved(id)

SpecValidate == Init /\ [][NextValidate]_vars

(***************************************************************************)
(* validateCloneToken applied on its own                                   *)
(***************************************************************************)
\* the params of a token: each of the two target parameters present or not
TokenParams ==
    {(<<>>)} \cup
    {("targetNamespace" :> ns) : ns \in {<<"p">>, <<"q">>}} \cup
    {("targetName" :> n) : n \in {<<"d">>, <<"x">>}} \cup
    {("targetNamespace" :> ns) @@ ("targetName" :> n) :
        ns \in {<<"p">>, <<"q">>}, n \in {<<"d">>, <<"x">>}}

\* the tokens a target PVC can carry
Tokens ==
    [state : {"ok", "bad signature", "expired"},
     issuer : {CloneTokenIssuer, UploadTokenIssuer},
     data : [operation : {OperationClone, OperationUpload},
             name : {<<"s">>, <<"t">>},
             namespace : {<<"a">>, <<"b">>},
             resource : {"persistentvolumeclaims", "pods"},
             params : TokenParams]]

\* the calls validateCloneToken(source, target): any source PVC, and the
\* target PVC of k1 with any token or none
TokenCalls ==
    {[fn |-> "validateCloneToken", source |-> src, target |-> NewPVC("k1", a)] :
        src \in SourcePVCs,
        a \in {(<<>>)} \cup {(AnnCloneToken :> t) : t \in Tokens}}

InitToken ==
    /\ pvcs = [k \in Keys |-> NoPVC]
    /\ pods = [id \in PodIds |-> NoPod]
    /\ events = [k \in Keys |-> 0]
    /\ last = [op |-> "init", key |-> "", err |-> Nil, cloneOfSet |-> FALSE]
    /\ input \in TokenCalls
    /\ output = NoCall

CallValidateCloneToken ==
    /\ input.fn = "validateCloneToken"
    /\ output = NoCall
    /\ output' = [fn |-> "validateCloneToken",
                  err |-> validateCloneToken(input.source, input.target)]
    /\ UNCHANGED <<pvcs, pods, events, last, input>>

NextToken == CallValidateCloneToken

SpecToken == InitToken /\ [][NextToken]_vars

(***************************************************************************)
(* The happy clone: a valid target PVC, an upload pod that gets ready and  *)
(* then succeeds, a source pod that runs and exits, reconcile requests     *)
(* that keep being delivered and API calls that are served in the end      *)
(***************************************************************************)
\* the keys of the target PVCs of the happy clone: both clone a/s
HappyKeys == {"k1"}

\* the source PVCs a clone of the target can be asked of with success
HappySources == {p \in SourcePVCs : p.name = <<"s">>}

InitHappy ==
    /\ \E p \in HappySources :
           pvcs = [k \in Keys |->
                     IF k \in HappyKeys
                     THEN NewPVC(k, ask(CloneRequestOf(p.namespace, p.name),
                                        CloneTokenFor(p.namespace, p.name, k)))
                     ELSE NoPVC]
    /\ pods = [id \in PodIds |-> NoPod]
    /\ events = [k \in Keys |-> 0]
    /\ last = [op |-> "init", key |-> "", err |-> Nil, cloneOfSet |-> FALSE]
    /\ input = NoCall
    /\ output = NoCall

\* the API failures of the happy clone: all but a failing PVC update
HappyFailures == Failures \ {"update"}

\* the upload pod gets on: it is pending, then running and ready, then succeeded
UploadPodAdvances(k) ==
    \E new \in UploadPodAnnotations :
        /\ pvcs[k] # NoPVC
        /\ \/ ~HasAnnotation(pvcs[k], AnnPodPhase) /\ new[AnnPodPhase] = "Pending"
           \/ /\ Ann(pvcs[k], AnnPodPhase) = "Pending"
              /\ new[AnnPodPhase] = "Running"
           \/ /\ Ann(pvcs[k], AnnPodPhase) = "Running"
              /\ new[AnnPodPhase] = "Succeeded" /\ new[AnnPodReady] = "false"
        /\ UploadPodReport(k, new)

\* a step of the upload pods or of the kubelet
HappyEnvironment ==
    \/ \E k \in HappyKeys : UploadPodAdvances(k)
    \/ \E id \in PodIds : PodStarts(id)
    \/ \E id \in PodIds : PodExits(id)
    \/ \E id \in PodIds : PodRemoved(id)

NextHappy ==
    \/ \E k \in HappyKeys, fail \in HappyFailures : Reconcile(k, fail)
    \/ HappyEnvironment
    \/ \E id \in PodIds : PodRestarts(id)

\* Reconcile requests of every key keep being delivered and are served without
\* API failure in the end; the upload pods and the kubelet do not stop while
\* they have a step to take (each of their steps is taken once at most, so
\* that this is fair to each of them)
SpecHappy ==
    /\ InitHappy
    /\ [][NextHappy]_vars
    /\ \A k \in HappyKeys : WF_vars(Reconcile(k, "none"))
    /\ WF_vars(HappyEnvironment)

(***************************************************************************)
(* A target PVC that is deleted while it is being cloned.  Reconcile       *)
(* requests keep being delivered and are served without API failure in the *)
(* end, and the orchestrator removes what it was asked to delete; nothing  *)
(* is assumed of the upload pod.                                           *)
(***************************************************************************)
\* the user deletes the target PVC: the API server marks it for deletion
\* (sets its deletion timestamp) and keeps it while it has finalizers
MarkPVCDeleted(k) ==
    /\ pvcs[k] # NoPVC
    /\ ~pvcs[k].deleting
    /\ pvcs' = [pvcs EXCEPT ![k].deleting = TRUE]
    /\ last' = External
    /\ UNCHANGED <<pods, events, input, output>>

\* a PVC marked for deletion is gone once the cloneSource finalizer is off
PVCFinalized(k) ==
    /\ pvcs[k] # NoPVC
    /\ pvcs[k].deleting
    /\ ~hasFinalizer(pvcs[k], cloneSourcePodFinalizer)
    /\ pvcs' = [pvcs EXCEPT ![k] = NoPVC]
    /\ last' = External
    /\ UNCHANGED <<pods, events, input, output>>

\* a step of the orchestrator that ends a deletion
Finalization ==
    \/ \E k \in SpecKeys : PVCFinalized(k)
    \/ \E id \in PodIds : PodRemoved(id)

NextDelete ==
    \/ \E k \in SpecKeys, fail \in Failures : Reconcile(k, fail)
    \/ \E k \in SpecKeys : UploadPodAdvances(k)
    \/ \E id \in PodIds : PodStarts(id)
    \/ \E id \in PodIds : PodExits(id)
    \/ \E k \in SpecKeys : MarkPVCDeleted(k)
    \/ Finalization

SpecDelete ==
    /\ InitHappy
    /\ [][NextDelete]_vars
    /\ \A k \in SpecKeys : WF_vars(Reconcile(k, "none"))
    /\ WF_vars(Finalization)

(***************************************************************************)
(* The two exported functions of the clone request, called on their own    *)
(***************************************************************************)
\* largest storage request of a call, in whole units
MaxStorage == 2
\* longest CloneRequest annotation of a call
MaxLen == 3

\* the storage requests of the calls: every half unit up to MaxStorage
Quantities == {500 * i : i \in 0..(2 * MaxStorage)}

\* a volume mode is not set, or set to one of the two modes
VolumeModes == {"nil", "Filesystem", "Block"}

PVCSpecs == [storage : Quantities, volumeMode : VolumeModes]

\* the values of a CloneRequest annotation: the strings of "n" and "/"
AnnotationValues == UNION {[1..n -> {"n", "/"}] : n \in 0..MaxLen}

FunctionCalls ==
    {[fn |-> "ValidateCanCloneSourceAndTargetSpec", sourceSpec |-> ss, targetSpec |-> ts] :
        ss \in PVCSpecs, ts \in PVCSpecs}
    \cup {[fn |-> "ParseCloneRequestAnnotation", pvc |-> NewPVC("k1", a)] :
             a \in {(<<>>)} \cup {(AnnCloneRequest :> v) : v \in AnnotationValues}}

InitFunctions ==
    /\ pvcs = [k \in Keys |-> NoPVC]
    /\ pods = [id \in PodIds |-> NoPod]
    /\ events = [k \in Keys |-> 0]
    /\ last = [op |-> "init", key |-> "", err |-> Nil, cloneOfSet |-> FALSE]
    /\ input \in FunctionCalls
    /\ output = NoCall

CallValidateCanCloneSourceAndTargetSpec ==
    /\ input.fn = "ValidateCanCloneSourceAndTargetSpec"
    /\ output = NoCall
    /\ output' = [fn |-> "ValidateCanCloneSourceAndTargetSpec",
                  err |-> ValidateCanCloneSourceAndTargetSpec(input.sourceSpec,
                                                              input.targetSpec)]
    /\ UNCHANGED <<pvcs, pods, events, last, input>>

CallParseCloneRequestAnnotation ==
    /\ input.fn = "ParseCloneRequestAnnotation"
    /\ output = NoCall
    /\ output' = [fn |-> "ParseCloneRequestAnnotation",
                  ret |-> ParseCloneRequestAnnotation(input.pvc)]
    /\ UNCHANGED <<pvcs, pods, events, last, input>>

NextFunctions ==
    \/ CallValidateCanCloneSourceAndTargetSpec
    \/ CallParseCloneRequestAnnotation

SpecFunctions == InitFunctions /\ [][NextFunctions]_vars

(***************************************************************************)
(* The upload proxy (package uploadproxy)                                  *)
(***************************************************************************)
\* seconds
waitReadyTime == 10

waitReadyImterval == 1

StatusBadRequest == 400

StatusUnauthorized == 401

StatusInternalServerError == 500

StatusServiceUnavailable == 503

\* no status written
NoStatus == 0

UploadPaths == {"/upload/sync", "/upload/async"}

UpperCase == <<"A", "B", "C", "D", "E", "F", "G", "H", "I", "J", "K", "L", "M",
               "N", "O", "P", "Q", "R", "S", "T", "U", "V", "W", "X", "Y", "Z">>

LowerCase == <<"a", "b", "c", "d", "e", "f", "g", "h", "i", "j", "k", "l", "m",
               "n", "o", "p", "q", "r", "s", "t", "u", "v", "w", "x", "y", "z">>

IsUpper(c) == \E i \in 1..26 : UpperCase[i] = c

IsLower(c) == \E i \in 1..26 : LowerCase[i] = c

\* the two characters outside ASCII that fold to an ASCII letter: KELVIN SIGN
\* (to k) and LATIN SMALL LETTER LONG S (to s)
KelvinSign == "U+212A"

LongS == "U+017F"

\* the lower-case letter the character folds to under (?i), the character
\* itself when it folds to none
Fold(c) ==
    IF IsUpper(c) THEN LowerCase[CHOOSE i \in 1..26 : UpperCase[i] = c]
    ELSE IF c = KelvinSign THEN "k"
    ELSE IF c = LongS THEN "s"
    ELSE c

\* \s of the regular expression
IsSpace(c) == c \in {" ", "\t", "\n", "\f", "\r"}

\* [A-Za-z0-9\-\._~\+\/] under (?i): a character class under (?i) holds every
\* character that folds to one of its letters
IsTokenChar(c) ==
    \/ IsLower(Fold(c))
    \/ IsDigit(c)
    \/ c \in {"-", ".", "_", "~", "+", "/"}

\* the number of white space characters s starts with
RECURSIVE LeadingSpaces(_)
LeadingSpaces(s) ==
    IF Len(s) > 0 /\ IsSpace(s[1]) THEN 1 + LeadingSpaces(Tail(s)) ELSE 0

\* authHeaderMatcher.FindStringSubmatch(header): <<header, token>> when the
\* header matches (?i)^Bearer\s+([A-Za-z0-9\-\._~\+\/]+)$ and <<>> when not
authHeaderMatcher(header) ==
    LET word == <<"b", "e", "a", "r", "e", "r">>
        rest == SubSeq(header, Len(word) + 1, Len(header))
        spaces == LeadingSpaces(rest)
        tok == SubSeq(rest, spaces + 1, Len(rest))
    IN IF /\ Len(header) >= Len(word)
          /\ \A i \in 1..Len(word) : Fold(header[i]) = word[i]
          /\ spaces >= 1
          /\ Len(tok) >= 1
          /\ \A i \in 1..Len(tok) : IsTokenChar(tok[i])
       THEN <<header, tok>>
       ELSE <<>>

\* the text of a token in an Authorization header
TokenText == <<"e", "y", "J", ".", "x", "-", "_">>

\* "Bearer <text>"
Bearer(text) == <<"B", "e", "a", "r", "e", "r", " ">> \o text

\* the Authorization headers of the requests: absent (the empty string),
\* bearer headers of several spellings, and headers of other forms
AuthHeaders ==
    { EmptyStr,
      Bearer(TokenText),
      <<"b", "e", "a", "r", "e", "r", " ", " ">> \o TokenText,
      <<"B", "E", "A", "R", "E", "R", "\t">> \o TokenText,
      Bearer(<<"a", "+", "/", "~", "0">>),
      <<"B", "a", "s", "i", "c", " ", "x", "x", "x">>,
      <<"B", "e", "a", "r", "e", "r">>,
      Bearer(EmptyStr),
      <<"B", "e", "a", "r", "e", "r">> \o TokenText,
      Bearer(TokenText) \o <<" ", "x">>,
      Bearer(<<"e", "y", "=", "J">>),
      <<"x">> \o Bearer(TokenText),
      Bearer(TokenText) \o <<"\n">>,
      Bearer(<<"e", "y", KelvinSign>>),
      Bearer(<<LongS, "e", "y">>) }

\* the header holds a character outside ASCII
HasNonASCII(header) == \E i \in 1..Len(header) : header[i] \in {KelvinSign, LongS}

\* the tokens the text of a header can be
UploadTokens ==
    {[state |-> st, issuer |-> iss,
      data |-> [operation |-> op, name |-> n, namespace |-> ns, resource |-> res,
                params |-> <<>>]] :
        st \in {"ok", "malformed", "bad signature", "expired", "not yet valid"},
        iss \in {UploadTokenIssuer, CloneTokenIssuer},
        op \in {OperationUpload, OperationClone},
        n \in {<<"d">>, EmptyStr},
        ns \in {<<"p">>, EmptyStr},
        res \in {"persistentvolumeclaims", "pods"}}

\* the tokens that the text of the header can be: a text with a character
\* outside ASCII is a malformed token
TokensOf(header) == {u \in UploadTokens : HasNonASCII(header) => u.state = "malformed"}

\* the requests to the upload paths: token is the token that the text of the
\* header is
UploadRequests ==
    UNION {{[fn |-> "handleUploadRequest", path |-> p, header |-> h, token |-> t] :
               p \in UploadPaths, t \in TokensOf(h)} : h \in AuthHeaders}

\* client.Do has not returned
NotSent == [err |-> Nil, status |-> NoStatus, copy |-> Nil]

\* no upstream request
NoURL == [namespace |-> EmptyStr, name |-> EmptyStr, path |-> ""]

\* handleUploadRequest at its start: nothing checked, nothing written
Received ==
    [fn |-> "handleUploadRequest", pc |-> "done", status |-> NoStatus,
     matched |-> FALSE, validations |-> 0, validated |-> FALSE, claims |-> FALSE,
     ready |-> FALSE, name |-> EmptyStr, namespace |-> EmptyStr,
     elapsed |-> 0, polls |-> 0, err |-> Nil, clients |-> 0, requests |-> 0,
     url |-> NoURL, sent |-> NotSent, copyFailed |-> FALSE]

\* handleUploadRequest that answers 400 for a token that cannot be decoded
handleUploadRequestMalformedBadRequest(header, tok) ==
    LET match == authHeaderMatcher(header)
        v == Validate(UploadTokenIssuer, tok)
        tokenData == v.data
    IN IF header = EmptyStr
       THEN [Received EXCEPT !.status = StatusBadRequest]
       ELSE IF Len(match) # 2
       THEN [Received EXCEPT !.status = StatusBadRequest]
       ELSE IF v.err # Nil
       THEN [Received EXCEPT !.matched = TRUE, !.validations = 1,
                             !.status = IF tok.state = "malformed"
                                        THEN StatusBadRequest
                                        ELSE StatusUnauthorized]
       ELSE IF \/ tokenData.operation # OperationUpload
               \/ tokenData.name = EmptyStr
               \/ tokenData.namespace = EmptyStr
               \/ tokenData.resource # "persistentvolumeclaims"
       THEN [Received EXCEPT !.matched = TRUE, !.validations = 1, !.validated = TRUE,
                             !.status = StatusBadRequest]
       ELSE [Received EXCEPT !.matched = TRUE, !.validations = 1, !.validated = TRUE,
                             !.claims = TRUE, !.pc = "poll",
                             !.name = tokenData.name, !.namespace = tokenData.namespace]

\* handleUploadRequest without its test of the name of the token
handleUploadRequestAnyName(header, tok) ==
    LET match == authHeaderMatcher(header)
        v == Validate(UploadTokenIssuer, tok)
        tokenData == v.data
    IN IF header = EmptyStr
       THEN [Received EXCEPT !.status = StatusBadRequest]
       ELSE IF Len(match) # 2
       THEN [Received EXCEPT !.status = StatusBadRequest]
       ELSE IF v.err # Nil
       THEN [Received EXCEPT !.matched = TRUE, !.validations = 1,
                             !.status = StatusUnauthorized]
       ELSE IF \/ tokenData.operation # OperationUpload
               \/ tokenData.namespace = EmptyStr
               \/ tokenData.resource # "persistentvolumeclaims"
       THEN [Received EXCEPT !.matched = TRUE, !.validations = 1, !.validated = TRUE,
                             !.status = StatusBadRequest]
       ELSE [Received EXCEPT !.matched = TRUE, !.validations = 1, !.validated = TRUE,
                             !.claims = TRUE, !.pc = "poll",
                             !.name = tokenData.name, !.namespace = tokenData.namespace]

\* handleUploadRequest up to its call of uploadReady: the header, the token
\* and the claims of the token
handleUploadRequest(header, tok) ==
    LET match == authHeaderMatcher(header)
        v == Validate(UploadTokenIssuer, tok)
        tokenData == v.data
    IN IF header = EmptyStr
       THEN [Received EXCEPT !.status = StatusBadRequest]
       ELSE IF Len(match) # 2
       THEN [Received EXCEPT !.status = StatusBadRequest]
       ELSE IF v.err # Nil
       THEN [Received EXCEPT !.matched = TRUE, !.validations = 1,
                             !.status = StatusUnauthorized]
       ELSE IF \/ tokenData.operation # OperationUpload
               \/ tokenData.name = EmptyStr
               \/ tokenData.namespace = EmptyStr
               \/ tokenData.resource # "persistentvolumeclaims"
       THEN [Received EXCEPT !.matched = TRUE, !.validations = 1, !.validated = TRUE,
                             !.status = StatusBadRequest]
       ELSE [Received EXCEPT !.matched = TRUE, !.validations = 1, !.validated = TRUE,
                             !.claims = TRUE, !.pc = "poll",
                             !.name = tokenData.name, !.namespace = tokenData.namespace]

\* PersistentVolumeClaims(namespace).Get(name): the keys of the PVCs of that
\* namespace and name in the store, none when not found
GetPVC(pv, namespace, name) ==
    {k \in Keys : /\ pv[k] # NoPVC
                  /\ pv[k].namespace = namespace
                  /\ pv[k].name = name}

\* the API calls of a poll that an input can make fail
PollFailures == {"none", "get"}

\* the condition of uploadReady without its test of PodPhase
uploadReadyConditionAnyPhase(pv, pvcName, pvcNamespace, fail) ==
    LET got == GetPVC(pv, pvcNamespace, pvcName)
        pvc == pv[CHOOSE k \in got : TRUE]
    IN IF fail = "get"
       THEN [done |-> FALSE, err |-> ApiFailure]
       ELSE IF got = {}
       THEN [done |-> FALSE,
             err |-> Errorf("rejecting Upload Request for PVC that doesn't exist")]
       ELSE [done |-> ParseBool(Ann(pvc, AnnPodReady)).value, err |-> Nil]

\* the condition uploadReady polls: [done, err]
uploadReadyCondition(pv, pvcName, pvcNamespace, fail) ==
    LET got == GetPVC(pv, pvcNamespace, pvcName)
        pvc == pv[CHOOSE k \in got : TRUE]
    IN IF fail = "get"
       THEN [done |-> FALSE, err |-> ApiFailure]
       ELSE IF got = {}
       THEN [done |-> FALSE,
             err |-> Errorf("rejecting Upload Request for PVC that doesn't exist")]
       ELSE IF Ann(pvc, AnnPodPhase) = "Succeeded"
       THEN [done |-> FALSE,
             err |-> Errorf("rejecting Upload Request for PVC that already finished uploading")]
       ELSE [done |-> ParseBool(Ann(pvc, AnnPodReady)).value, err |-> Nil]

\* the handler after a poll, going on to proxy when the time is over
PolledProxiesWhenOver(out, r) ==
    IF r.err # Nil
    THEN [out EXCEPT !.polls = @ + 1, !.err = r.err, !.pc = "done",
                     !.status = StatusServiceUnavailable]
    ELSE IF r.done
    THEN [out EXCEPT !.polls = @ + 1, !.pc = "proxy", !.ready = TRUE]
    ELSE IF out.elapsed >= waitReadyTime
    THEN [out EXCEPT !.polls = @ + 1, !.pc = "proxy"]
    ELSE [out EXCEPT !.polls = @ + 1, !.pc = "wait"]

\* the handler after a poll of uploadReady that returned r: wait.PollImmediate
\* returns the error of the condition, returns nil when the condition is
\* done, polls for the last time when waitReadyTime has passed, and waits for
\* the next tick when not
Polled(out, r) ==
    IF r.err # Nil
    THEN [out EXCEPT !.polls = @ + 1, !.err = r.err, !.pc = "done",
                     !.status = StatusServiceUnavailable]
    ELSE IF r.done
    THEN [out EXCEPT !.polls = @ + 1, !.pc = "proxy", !.ready = TRUE]
    ELSE IF out.elapsed >= waitReadyTime
    THEN [out EXCEPT !.polls = @ + 1, !.err = Errorf("timed out waiting for the condition"),
                     !.pc = "done", !.status = StatusServiceUnavailable]
    ELSE [out EXCEPT !.polls = @ + 1, !.pc = "wait"]

\* the ways CreateClient ends: with a client, with the error of the client
\* certificate, of its key, of the CA bundle or of the key pair, or with a
\* client that has no root CA because the bundle holds no certificate
ClientOutcomes == {"ok", "CertBytes", "KeyBytes", "BundleBytes", "X509KeyPair", "emptyBundle"}

\* clientCreator.CreateClient: [client, err], client "nil" when it fails
CreateClient(made) ==
    IF made \in {"CertBytes", "KeyBytes", "BundleBytes", "X509KeyPair"}
    THEN [client |-> "nil", err |-> Errorf(made)]
    ELSE [client |-> IF made = "emptyBundle" THEN "noRootCAs" ELSE "ok", err |-> Nil]

\* the status codes of the upload server
UpstreamStatuses == {200, 400, 503}

\* the ways client.Do ends: a transport error, or the response of the upload
\* server, whose body can fail to be copied
UpstreamOutcomes ==
    {[err |-> Errorf("transport"), status |-> NoStatus, copy |-> Nil]} \cup
    {[err |-> Nil, status |-> s, copy |-> c] :
        s \in UpstreamStatuses, c \in {Nil, Errorf("copy")}}

\* proxyUploadRequest that answers 500 when the copy of the body fails
proxyUploadRequestCopyError(out, path, made, sent) ==
    LET c == CreateClient(made)
        url == [namespace |-> out.namespace, name |-> out.name, path |-> path]
    IN IF c.client = "nil"
       THEN [out EXCEPT !.clients = @ + 1, !.pc = "panic"]
       ELSE IF sent.err # Nil
       THEN [out EXCEPT !.clients = @ + 1, !.requests = @ + 1, !.url = url,
                        !.sent = sent,
                        !.pc = "done", !.status = StatusInternalServerError]
       ELSE [out EXCEPT !.clients = @ + 1, !.requests = @ + 1, !.url = url,
                        !.sent = sent,
                        !.pc = "done",
                        !.status = IF sent.copy # Nil THEN StatusInternalServerError
                                   ELSE sent.status,
                        !.copyFailed = (sent.copy # Nil)]

\* proxyUploadRequest: the handler after it, for a CreateClient that ends as
\* made and a client.Do that ends as sent.  client.Do on the nil client of a
\* failed CreateClient dereferences nil: the handler panics, the server
\* recovers the panic and closes the connection, no status is written
proxyUploadRequest(out, path, made, sent) ==
    LET c == CreateClient(made)
        url == [namespace |-> out.namespace, name |-> out.name, path |-> path]
    IN IF c.client = "nil"
       THEN [out EXCEPT !.clients = @ + 1, !.pc = "panic"]
       ELSE IF sent.err # Nil
       THEN [out EXCEPT !.clients = @ + 1, !.requests = @ + 1, !.url = url,
                        !.sent = sent,
                        !.pc = "done", !.status = StatusInternalServerError]
       ELSE [out EXCEPT !.clients = @ + 1, !.requests = @ + 1, !.url = url,
                        !.sent = sent,
                        !.pc = "done", !.status = sent.status,
                        !.copyFailed = (sent.copy # Nil)]

\* a request arrives and the handler runs up to its first poll
ReceiveUpload(req) ==
    /\ input = NoCall
    /\ input' = req
    /\ output' = handleUploadRequest(req.header, req.token)
    /\ UNCHANGED <<pvcs, pods, events, last>>

\* one poll of uploadReady
PollUploadReady(fail) ==
    /\ input.fn = "handleUploadRequest"
    /\ output.pc = "poll"
    /\ output' = Polled(output,
                        uploadReadyCondition(pvcs, output.name, output.namespace, fail))
    /\ UNCHANGED <<pvcs, pods, events, last, input>>

\* waitReadyImterval passes between two polls
TickUploadReady ==
    /\ input.fn = "handleUploadRequest"
    /\ output.pc = "wait"
    /\ output' = [output EXCEPT !.elapsed = @ + waitReadyImterval, !.pc = "poll"]
    /\ UNCHANGED <<pvcs, pods, events, last, input>>

\* the handler proxies the request to the upload server
ProxyUploadRequest(made, sent) ==
    /\ input.fn = "handleUploadRequest"
    /\ output.pc = "proxy"
    /\ made = "emptyBundle" => sent.err # Nil
    /\ output' = proxyUploadRequest(output, input.path, made, sent)
    /\ UNCHANGED <<pvcs, pods, events, last, input>>

\* the target PVC is deleted
PVCDeleted(k) ==
    /\ pvcs[k] # NoPVC
    /\ ~hasFinalizer(pvcs[k], cloneSourcePodFinalizer)
    /\ pvcs' = [pvcs EXCEPT ![k] = NoPVC]
    /\ last' = External
    /\ UNCHANGED <<pods, events, input, output>>

NextProxy ==
    \/ \E req \in UploadRequests : ReceiveUpload(req)
    \/ \E fail \in PollFailures : PollUploadReady(fail)
    \/ TickUploadReady
    \/ \E made \in ClientOutcomes, sent \in UpstreamOutcomes : ProxyUploadRequest(made, sent)
    \/ \E k \in SpecKeys : CreatePVC(k, <<>>)
    \/ \E k \in SpecKeys, new \in UploadPodAnnotations : UploadPodReport(k, new)
    \/ \E k \in SpecKeys : PVCDeleted(k)

SpecProxy == Init /\ [][NextProxy]_vars

(***************************************************************************)
(* The two validators: the clone reconciler's and the upload proxy's       *)
(***************************************************************************)
\* either validateCloneToken is applied to a source and a target PVC, or
\* the upload proxy serves requests
InitIssuers ==
    /\ pvcs = [k \in Keys |-> NoPVC]
    /\ pods = [id \in PodIds |-> NoPod]
    /\ events = [k \in Keys |-> 0]
    /\ last = [op |-> "init", key |-> "", err |-> Nil, cloneOfSet |-> FALSE]
    /\ input \in TokenCalls \cup {NoCall}
    /\ output = NoCall

NextIssuers ==
    \/ CallValidateCloneToken
    \/ \E req \in UploadRequests : ReceiveUpload(req)
    \/ \E fail \in PollFailures : PollUploadReady(fail)
    \/ TickUploadReady
    \/ \E made \in ClientOutcomes, sent \in UpstreamOutcomes : ProxyUploadRequest(made, sent)
    \/ \E k \in SpecKeys : CreatePVC(k, <<>>)
    \/ \E k \in SpecKeys, new \in UploadPodAnnotations : UploadPodReport(k, new)

SpecIssuers == InitIssuers /\ [][NextIssuers]_vars

(***************************************************************************)
(* Claims                                                                  *)
(***************************************************************************)
\* the source pods of the target PVC of key k in the pods po: the pods, of
\* any namespace, that carry its CloneUniqueID label
SourcePodsIn(po, k) ==
    {id \in PodIds : /\ po[id] # NoPod
                     /\ po[id].labels[CloneUniqueID] = getCloneSourcePodName(TargetMeta(k))}

HasCloneFinalizer(pvc) == pvc # NoPVC /\ hasFinalizer(pvc, cloneSourcePodFinalizer)

\* C1: in every reachable state there is at most one source pod carrying the
\* CloneUniqueID label of a target PVC, counted across all namespaces.
C1_AtMostOneSourcePod ==
    \A k \in Keys : Cardinality(SourcePodsIn(pods, k)) <= 1

\* C2: whenever a step creates a source pod for a target PVC, the cloneSource
\* finalizer is on the stored PVC before that step.
C2_FinalizerBeforeCreate ==
    [][\A k \in Keys :
          (SourcePodsIn(pods', k) \ SourcePodsIn(pods, k) # {})
              => HasCloneFinalizer(pvcs[k])]_vars

\* C3: whenever a step removes the cloneSource finalizer from a target PVC,
\* every source pod of that PVC is gone or marked for deletion after the step.
C3_FinalizerRemovedAfterDelete ==
    [][\A k \in Keys :
          (HasCloneFinalizer(pvcs[k]) /\ ~HasCloneFinalizer(pvcs'[k]))
              => \A id \in SourcePodsIn(pods', k) : pods'[id].deleting]_vars

\* C4: a step never removes or changes a CloneOf annotation that is present,
\* and a step that adds it gives it the value "true"; so it is written at
\* most once.
C4_CloneOfWrittenOnce ==
    [][\A k \in Keys :
          (pvcs[k] # NoPVC /\ pvcs'[k] # NoPVC) =>
              /\ HasAnnotation(pvcs[k], AnnCloneOf) =>
                    /\ HasAnnotation(pvcs'[k], AnnCloneOf)
                    /\ pvcs'[k].annotations[AnnCloneOf] = pvcs[k].annotations[AnnCloneOf]
              /\ (~HasAnnotation(pvcs[k], AnnCloneOf) /\ HasAnnotation(pvcs'[k], AnnCloneOf)) =>
                    pvcs'[k].annotations[AnnCloneOf] = "true"]_vars

\* a Reconcile call has just written CloneOf="true"
C4_Witness ==
    \E k \in Keys :
        /\ last.op = "Reconcile" /\ last.key = k /\ last.cloneOfSet
        /\ Ann(pvcs[k], AnnCloneOf) = "true"

\* the store after a Reconcile call for key k, with no API failure, on the
\* store holding the PVCs pv and the pods po
AfterReconcile(pv, po, k) ==
    [pvcs |-> [pv EXCEPT ![k] = ReconcileOn(pv, po, k, "none").stored],
     pods |-> ReconcileOn(pv, po, k, "none").pods]

\* a Reconcile call for key k, with no API failure, leaves the store holding
\* pv and po as it is and records no event
ReconcileChangesNothing(pv, po, k) ==
    /\ AfterReconcile(pv, po, k).pvcs = pv
    /\ AfterReconcile(pv, po, k).pods = po
    /\ ReconcileOn(pv, po, k, "none").events = 0

\* the second of two Reconcile calls for k in a row changes nothing, where s1
\* is the store after the first
SecondChangesNothing(s1, k) == ReconcileChangesNothing(s1.pvcs, s1.pods, k)

\* the third of three Reconcile calls for k in a row changes nothing
ThirdChangesNothing(s1, k) == SecondChangesNothing(AfterReconcile(s1.pvcs, s1.pods, k), k)

\* the call that led from the PVCs pv to the store s1 wrote CloneOf for k
WroteCloneOf(pv, s1, k) ==
    /\ pv[k] # NoPVC
    /\ ~HasAnnotation(pv[k], AnnCloneOf)
    /\ HasAnnotation(s1.pvcs[k], AnnCloneOf)

SixFieldsMatch(data, source, target) ==
    /\ data.operation = OperationClone
    /\ data.name = source.name
    /\ data.namespace = source.namespace
    /\ data.resource = "persistentvolumeclaims"
    /\ "targetNamespace" \in DOMAIN data.params
    /\ data.params["targetNamespace"] = target.namespace
    /\ "targetName" \in DOMAIN data.params
    /\ data.params["targetName"] = target.name

\* the target of the call carries a token that the clone validator validates
CallHasValidatedToken ==
    /\ input.fn = "validateCloneToken"
    /\ HasAnnotation(input.target, AnnCloneToken)
    /\ input.target.annotations[AnnCloneToken].state = "ok"
    /\ input.target.annotations[AnnCloneToken].issuer = CloneTokenIssuer

\* C6: validateCloneToken accepts a validated token iff all six binding
\* fields match, and answers "invalid token" when any of them does not.
C6_TokenBound ==
    (output # NoCall /\ CallHasValidatedToken) =>
        IF SixFieldsMatch(input.target.annotations[AnnCloneToken].data,
                          input.source, input.target)
        THEN output.err = Nil
        ELSE output.err = <<"invalid token">>

\* validateCloneToken has accepted a validated token
C6_Witness ==
    /\ output # NoCall
    /\ CallHasValidatedToken
    /\ output.err = Nil

\* the source pod of the happy clone of key k: <uid>-source-pod in the source
\* namespace
HappySourcePod(k) ==
    <<ParseCloneRequestAnnotation(pvcs[k]).namespace, getCloneSourcePodName(TargetMeta(k))>>

\* the source pod's deletion was accepted: it is gone or marked for deletion
HappyPodDeleted(k) == pods[HappySourcePod(k)] = NoPod \/ pods[HappySourcePod(k)].deleting

\* the happy clone of key k is over: CloneOf is "true", one CloneSucceeded
\* event was recorded, the source pod is deleted and the finalizer removed
HappyDone(k) ==
    /\ Ann(pvcs[k], AnnCloneOf) = "true"
    /\ events[k] = 1
    /\ HappyPodDeleted(k)
    /\ ~HasCloneFinalizer(pvcs[k])

\* C7: in the happy clone the source pod is created in the source namespace,
\* then CloneOf="true" is set with one CloneSucceeded event, then the source
\* pod is deleted, then the finalizer is removed: each of the four happens,
\* none of them before the one it follows, and the end state stays.
C7_HappyClone ==
    /\ \A k \in HappyKeys : <>(pods[HappySourcePod(k)] # NoPod)
    /\ \A k \in HappyKeys : <>[]HappyDone(k)
    /\ [][\A k \in HappyKeys :
            (~HasAnnotation(pvcs[k], AnnCloneOf) /\ HasAnnotation(pvcs'[k], AnnCloneOf))
                => /\ pods'[HappySourcePod(k)] # NoPod
                   /\ ~pods'[HappySourcePod(k)].deleting
                   /\ pvcs'[k].annotations[AnnCloneOf] = "true"
                   /\ events'[k] = events[k] + 1]_vars
    /\ [][\A k \in HappyKeys :
            (~HappyPodDeleted(k) /\ HappyPodDeleted(k)')
                => Ann(pvcs[k], AnnCloneOf) = "true"]_vars
    /\ [][\A k \in HappyKeys :
            (HasCloneFinalizer(pvcs[k]) /\ ~HasCloneFinalizer(pvcs'[k]))
                => HappyPodDeleted(k)' /\ Ann(pvcs[k], AnnCloneOf) = "true"]_vars

\* the happy clone of every key is over and the source pods are gone
C7_Witness ==
    /\ \A k \in HappyKeys : HappyDone(k) /\ pods[HappySourcePod(k)] = NoPod
    /\ last.op = "Reconcile"

\* the PVC of key k asks for a clone that is not done, its upload pod is
\* running or has succeeded, and no source pod of it exists
AwaitsSourcePod(k) ==
    /\ pvcs[k] # NoPVC
    /\ shouldReconcile(pvcs[k])
    /\ waitTargetPodRunningOrSucceeded(pvcs[k]) = [ready |-> TRUE, err |-> Nil]
    /\ SourcePodsIn(pods, k) = {}

\* the clone request of pvc does not pass validateSourceAndTarget
ValidationFails(pvc) == validateSourceAndTarget(pvc, "none") # Nil

\* the clone request of pvc is one reconcileSourcePod creates no pod for
RequestFails(pvc) == ValidationFails(pvc) \/ ~HasAnnotation(pvc, AnnUploadClientName)

\* the errors of a failing validation
ValidationErrors ==
    { Errorf("error parsing clone request annotation"),
      Wrap(NotFound, "error getting clone source PVC"),
      Errorf("clone token missing"),
      Wrap(Errorf("token validation failed"), "error verifying token"),
      Errorf("invalid token"),
      Errorf("target resources requests storage size is smaller than the source"),
      <<"source volumeMode (", "Block", ") and target volumeMode (", "Filesystem",
        ") do not match">>,
      <<"PVC missing required ", AnnUploadClientName, " annotation">> }

\* a Reconcile call for key k that does r changes nothing in the store and
\* records no event
NoSideEffect(k, r) == r.stored = pvcs[k] /\ r.pods = pods /\ r.events = 0

\* C8: a Reconcile call for a PVC that awaits its source pod and whose request
\* fails validation or lacks UploadClientName creates no pod, adds no
\* finalizer and does not update the PVC, whichever API call fails, and it
\* returns the error of the validation when no API call fails.
C8_ValidationFailureNoSideEffect ==
    \A k \in Keys :
        (AwaitsSourcePod(k) /\ RequestFails(pvcs[k]))
            => /\ \A fail \in Failures : NoSideEffect(k, ReconcileOn(pvcs, pods, k, fail))
               /\ ReconcileOn(pvcs, pods, k, "none").err \in ValidationErrors

\* a Reconcile call has returned the error of a token bound to other objects
\* for a PVC that awaits its source pod
C8_Witness ==
    \E k \in Keys :
        /\ AwaitsSourcePod(k) /\ RequestFails(pvcs[k])
        /\ ~HasCloneFinalizer(pvcs[k])
        /\ last.op = "Reconcile" /\ last.key = k /\ last.err = Errorf("invalid token")

\* a Reconcile call that does r returns no error and records an event
EventAndNil(r) == r.err = Nil /\ r.events >= 1

\* C9: a Reconcile call for a PVC that awaits its source pod and whose request
\* fails validation records an event and returns a nil error.
C9_ValidationFailureEventNoRetry ==
    \A k \in Keys :
        (AwaitsSourcePod(k) /\ ValidationFails(pvcs[k]))
            => EventAndNil(ReconcileOn(pvcs, pods, k, "none"))

\* the pods the list of findCloneSourcePod returns for the PVC of key k
ListedPods(k) ==
    ListPods(pods, ParseCloneRequestAnnotation(pvcs[k]).namespace,
             getCloneSourcePodName(pvcs[k]))

\* the list of findCloneSourcePod for the PVC of key k returns several pods
ListsSeveral(k) ==
    /\ pvcs[k] # NoPVC
    /\ ParseCloneRequestAnnotation(pvcs[k]).exists
    /\ Cardinality(ListedPods(k)) > 1

\* a Reconcile call for the PVC of key k gets to findCloneSourcePod, on the
\* path that creates the pod or on the path that cleans up
ReachesList(k) ==
    IF shouldReconcile(pvcs[k])
    THEN waitTargetPodRunningOrSucceeded(pvcs[k]) = [ready |-> TRUE, err |-> Nil]
    ELSE hasFinalizer(pvcs[k], cloneSourcePodFinalizer)

\* C10: when the list of source pods of a PVC returns more than one pod, a
\* Reconcile call changes neither the pods nor the PVC and records no event,
\* whichever API call fails, and a call that gets the list returns the error
\* "multiple source pods found for clone PVC".
C10_SeveralPodsErrorNoMutation ==
    \A k \in Keys :
        ListsSeveral(k)
            => /\ \A fail \in Failures : NoSideEffect(k, ReconcileOn(pvcs, pods, k, fail))
               /\ ReachesList(k)
                    => ReconcileOn(pvcs, pods, k, "none").err =
                           Errorf("multiple source pods found for clone PVC")

\* a Reconcile call has returned the error of several source pods
C10_Witness ==
    \E k \in Keys :
        /\ ListsSeveral(k)
        /\ last.op = "Reconcile" /\ last.key = k
        /\ last.err = Errorf("multiple source pods found for clone PVC")

\* a character of the token of a bearer header: A-Z a-z 0-9 - . _ ~ + /
IsBearerTokenChar(c) ==
    IsUpper(c) \/ IsLower(c) \/ IsDigit(c) \/ c \in {"-", ".", "_", "~", "+", "/"}

\* the header is "Bearer", in letters of either case, then white space, then
\* a token of one or more of these characters
IsBearerHeader(header) ==
    LET word == <<"b", "e", "a", "r", "e", "r">>
        rest == SubSeq(header, Len(word) + 1, Len(header))
        tok == SubSeq(rest, LeadingSpaces(rest) + 1, Len(rest))
    IN /\ Len(header) >= Len(word)
       /\ \A i \in 1..Len(word) :
              header[i] = word[i] \/ (IsUpper(header[i]) /\ Fold(header[i]) = word[i])
       /\ LeadingSpaces(rest) >= 1
       /\ Len(tok) >= 1
       /\ \A i \in 1..Len(tok) : IsBearerTokenChar(tok[i])

\* the handler has received a request
UploadReceived == input.fn = "handleUploadRequest"

\* C11: a request whose Authorization header is absent or is not a bearer
\* header with a token of the characters A-Z a-z 0-9 - . _ ~ + / is answered
\* 400 and no token is validated for it.
C11_BadHeaderBadRequest ==
    (UploadReceived /\ ~IsBearerHeader(input.header))
        => /\ output.status = StatusBadRequest
           /\ output.validations = 0

\* the header of the request matches and the upload validator rejects its token
TokenRejected ==
    /\ UploadReceived
    /\ Len(authHeaderMatcher(input.header)) = 2
    /\ Validate(UploadTokenIssuer, input.token).err # Nil

\* C12: a request with a matching bearer header whose token fails validation
\* is answered 401 whatever the failure is (malformed, bad signature, wrong
\* issuer, expired, not yet valid), after one validation and with no poll.
C12_ValidationFailureUnauthorized ==
    TokenRejected
        => /\ output.status = StatusUnauthorized
           /\ output.pc = "done"
           /\ output.validations = 1
           /\ output.polls = 0

\* an expired token of the upload issuer has been answered 401
C12_Witness ==
    /\ TokenRejected
    /\ input.token.state = "expired"
    /\ input.token.issuer = UploadTokenIssuer
    /\ output.status = StatusUnauthorized

\* the keys of the PVC that the token of the request names
TokenPVC == GetPVC(pvcs, input.token.data.namespace, input.token.data.name)

\* the PVC that the token of the request names is in the store and its
\* PodPhase annotation is not Succeeded
TokenPVCUploading ==
    /\ TokenPVC # {}
    /\ \A k \in TokenPVC : Ann(pvcs[k], AnnPodPhase) # "Succeeded"

\* the handler is about to poll and this step is the poll
PollStep == UploadReceived /\ output.pc = "poll" /\ output'.polls = output.polls + 1

\* what the poll of this step is to lead to: 503 when the PVC is missing or
\* its PodPhase is Succeeded or its Get fails, success when PodReady is
\* "true", 503 when it is not and waitReadyTime has passed, and a wait for the
\* next poll when the time has not passed
PollOutcome ==
    IF IsApiFailure(output'.err) \/ ~TokenPVCUploading
    THEN output'.status = StatusServiceUnavailable /\ output'.pc = "done" /\ ~output'.ready
    ELSE IF \A k \in TokenPVC : Ann(pvcs[k], AnnPodReady) = "true"
    THEN output'.ready /\ output'.pc = "proxy" /\ output'.status = NoStatus
    ELSE IF output.elapsed >= waitReadyTime
    THEN output'.status = StatusServiceUnavailable /\ output'.pc = "done" /\ ~output'.ready
    ELSE output'.pc = "wait" /\ output'.status = NoStatus /\ ~output'.ready

\* the polls of a request are in the window: the first at once, the others
\* waitReadyImterval apart, none after waitReadyTime; readiness comes from a
\* poll, and a request that was polled and ended without it was answered 503
PollWindow ==
    UploadReceived
        => /\ output.elapsed <= waitReadyTime
           /\ output.pc = "poll" => output.polls * waitReadyImterval = output.elapsed
           /\ output.pc = "wait" => (output.polls - 1) * waitReadyImterval = output.elapsed
           /\ output.ready => output.polls >= 1
           /\ (output.pc = "done" /\ output.polls >= 1 /\ ~output.ready)
                  => output.status = StatusServiceUnavailable

RefusalStatuses == {StatusBadRequest, StatusUnauthorized, StatusServiceUnavailable}

\* the checks of the handler are passed in their order: the header, the
\* token, the claims, the readiness, and only then a client is built and a
\* request sent upstream
ChecksInOrder ==
    /\ output.validations >= 1 => output.matched
    /\ output.validated => output.validations >= 1
    /\ output.claims => output.validated
    /\ output.polls >= 1 => output.claims
    /\ output.ready => output.polls >= 1
    /\ output.clients >= 1 => output.ready
    /\ output.requests >= 1 => output.clients >= 1

\* a request that the handler has answered without readiness was answered
\* 400, 401 or 503, with no client built and no request sent upstream
RefusedUnsent ==
    (output.status # NoStatus /\ ~output.ready)
        => /\ output.status \in RefusalStatuses
           /\ output.clients = 0
           /\ output.requests = 0
           /\ output.url = NoURL

UploadOver == UploadReceived /\ output.pc \in {"done", "panic"}

\* C15: every request to /upload/sync or /upload/async that is over has got
\* one status, the upload server's or 400, 401, 500 or 503, also when the
\* client for the upload server could not be built.
C15_AlwaysOneStatus ==
    UploadOver
        => output.status \in UpstreamStatuses \cup RefusalStatuses
                                 \cup {StatusInternalServerError}

\* C16: a request that was ready and whose handler has returned was sent
\* upstream once and is answered 500 when client.Do returned an error and
\* with the status of the upstream response when it returned one, also when
\* the copy of the response body failed.
C16_UpstreamStatusMirrored ==
    (UploadReceived /\ output.ready /\ output.pc = "done")
        => /\ output.requests = 1
           /\ output.status = IF output.sent.err # Nil
                              THEN StatusInternalServerError
                              ELSE output.sent.status

\* the status of the upload server was written and the copy of its body failed
C16_Witness ==
    /\ UploadReceived
    /\ output.pc = "done"
    /\ output.copyFailed
    /\ output.sent.status = 200
    /\ output.status = 200

\* the header of the request matches and the upload validator accepts its token
TokenAccepted ==
    /\ UploadReceived
    /\ Len(authHeaderMatcher(input.header)) = 2
    /\ Validate(UploadTokenIssuer, input.token).err = Nil

\* the claims the handler asks of a token
UploadClaimsHold(data) ==
    /\ data.operation = OperationUpload
    /\ data.name # EmptyStr
    /\ data.namespace # EmptyStr
    /\ data.resource = "persistentvolumeclaims"

\* C17: a request whose token validated is answered 400 with no poll unless
\* the token's operation is upload, its name and namespace are not empty and
\* its resource is persistentvolumeclaims; when they are, the handler goes on
\* to poll, and later to proxy to, the PVC of the token's namespace and name.
C17_ClaimsChecked ==
    TokenAccepted
        => IF UploadClaimsHold(input.token.data)
           THEN /\ output.claims
                /\ output.pc = "poll" \/ output.polls >= 1
                /\ output.namespace = input.token.data.namespace
                /\ output.name = input.token.data.name
                /\ output.requests >= 1 =>
                       /\ output.url.namespace = input.token.data.namespace
                       /\ output.url.name = input.token.data.name
           ELSE /\ output.status = StatusBadRequest
                /\ output.pc = "done"
                /\ output.polls = 0

\* a token with valid claims was accepted and its PVC polled
C17_Witness ==
    /\ TokenAccepted
    /\ UploadClaimsHold(input.token.data)
    /\ output.polls >= 1
    /\ output.namespace = <<"p">>
    /\ output.name = <<"d">>

\* ValidateCanCloneSourceAndTargetSpec was called and has returned
ValidateCanCloneReturned ==
    /\ input.fn = "ValidateCanCloneSourceAndTargetSpec"
    /\ output.fn = "ValidateCanCloneSourceAndTargetSpec"

\* a volume mode, an absent one counted as Filesystem
ModeOrFilesystem(spec) == IF spec.volumeMode = "nil" THEN "Filesystem" ELSE spec.volumeMode

\* the least whole number that is not below the quantity
WholeUnits(q) == CHOOSE n \in 0..q : 1000 * n >= q /\ (n = 0 \/ 1000 * (n - 1) < q)

VolumeModeMismatch ==
    <<"source volumeMode (", "Filesystem", ") and target volumeMode (", "Block",
      ") do not match">>

ParseCloneRequestReturned ==
    /\ input.fn = "ParseCloneRequestAnnotation"
    /\ output.fn = "ParseCloneRequestAnnotation"

\* the positions of the slashes of a string
SlashPositions(s) == {i \in 1..Len(s) : s[i] = "/"}

\* the string has one slash, with text before it and text after it
TwoNonEmptyParts(s) ==
    /\ Cardinality(SlashPositions(s)) = 1
    /\ \A i \in SlashPositions(s) : 1 < i /\ i < Len(s)

\* C19: ParseCloneRequestAnnotation reports a clone request iff the
\* CloneRequest annotation is present and splitting it on "/" gives exactly
\* two parts that are both non-empty, and then returns the part before the
\* slash as the namespace and the part after it as the name; a value with an
\* empty namespace or an empty name is reported as not a request.
C19_ParseTwoNonEmptyParts ==
    ParseCloneRequestReturned
        => /\ output.ret.exists
                  <=> /\ HasAnnotation(input.pvc, AnnCloneRequest)
                      /\ TwoNonEmptyParts(Ann(input.pvc, AnnCloneRequest))
           /\ output.ret.exists
                  => Ann(input.pvc, AnnCloneRequest)
                         = output.ret.namespace \o <<"/">> \o output.ret.name

\* the PVC is relevant and its upload pod is not ready: PodReady is absent, or
\* is false while PodPhase is not Succeeded
WaitingForUploadPod(pvc) ==
    /\ pvc # NoPVC
    /\ HasAnnotation(pvc, AnnCloneRequest)
    /\ ~HasAnnotation(pvc, AnnCloneOf)
    /\ \/ ~HasAnnotation(pvc, AnnPodReady)
       \/ /\ Ann(pvc, AnnPodReady) \in {"0", "f", "F", "FALSE", "false", "False"}
          /\ Ann(pvc, AnnPodPhase) # "Succeeded"

\* a Reconcile call whose Get is served returns nil and leaves the PVC of k
\* and the pods as they are, whichever later API call would fail
ReconcileWaits(k) ==
    \A fail \in Failures \ {"get"} :
        ReconcileOn(pvcs, pods, k, fail)
            = [stored |-> pvcs[k], pods |-> pods, events |-> 0, err |-> Nil]

\* C20: for a relevant PVC whose PodReady annotation is absent, or is false
\* while PodPhase is not Succeeded, Reconcile returns nil and changes nothing:
\* it creates and deletes no pod, adds no finalizer, does not update the PVC
\* and records no event.
C20_NotReadyChangesNothing ==
    /\ [](\A k \in Keys : WaitingForUploadPod(pvcs[k]) => ReconcileWaits(k))
    /\ [][\A k \in Keys :
             (WaitingForUploadPod(pvcs[k]) /\ last'.op = "Reconcile" /\ last'.key = k)
                 => UNCHANGED <<pvcs, pods, events>>]_vars

\* Reconcile has returned nil for a PVC that asks for a clone and whose
\* upload pod reports PodReady false in phase Pending
C20_Witness ==
    \E k \in Keys :
        /\ WaitingForUploadPod(pvcs[k])
        /\ Ann(pvcs[k], AnnPodReady) = "false"
        /\ last.op = "Reconcile" /\ last.key = k /\ last.err = Nil

\* the PVC is relevant: it carries CloneRequest and no CloneOf
Relevant(pvc) ==
    /\ pvc # NoPVC
    /\ HasAnnotation(pvc, AnnCloneRequest)
    /\ ~HasAnnotation(pvc, AnnCloneOf)

\* the pods a Reconcile call for key k would create in the current store
CreatedBy(k, fail) ==
    {id \in PodIds : pods[id] = NoPod /\ ReconcileOn(pvcs, pods, k, fail).pods[id] # NoPod}

\* C21: a Reconcile call for a relevant PVC whose PodPhase annotation is
\* already Succeeded creates no source pod, whatever the value of PodReady
\* and whether or not a source pod exists.
C21_SucceededNeverCreates ==
    \A k \in Keys :
        (Relevant(pvcs[k]) /\ Ann(pvcs[k], AnnPodPhase) = "Succeeded")
            => \A fail \in Failures : CreatedBy(k, fail) = {}

\* a Reconcile call for the PVC of k enters cleanup: the PVC is not relevant
\* and carries the finalizer
InCleanup(k) == pvcs[k] # NoPVC /\ ~Relevant(pvcs[k]) /\ HasCloneFinalizer(pvcs[k])

\* the pods with the label of k in the namespace its CloneRequest names
RequestedPods(k) ==
    LET req == ParseCloneRequestAnnotation(pvcs[k])
    IN {id \in SourcePodsIn(pods, k) :
           req.exists /\ (req.namespace = EmptyStr \/ id[1] = req.namespace)}

\* the source pod of k exists and is not terminating
LiveSourcePod(k, id) ==
    RequestedPods(k) = {id} /\ ~pods[id].deleting

\* a Reconcile call for k with the given failure leaves everything as it is
\* and returns nil
DoesNothing(k, fail) ==
    ReconcileOn(pvcs, pods, k, fail)
        = [stored |-> pvcs[k], pods |-> pods, events |-> 0, err |-> Nil]

\* C22: in cleanup, when the source pod in the namespace of the clone request
\* exists, is not terminating, is Running and the PVC's PodPhase is Succeeded,
\* the call does nothing (no delete, the finalizer stays, no PVC update); in
\* every other case with such a pod the call issues its delete: the pod is
\* terminating or gone after the call, and a failing delete is reported.
C22_CleanupWaitsOnlyForRunning ==
    \A k \in Keys : \A id \in PodIds :
        (InCleanup(k) /\ LiveSourcePod(k, id))
            => IF Ann(pvcs[k], AnnPodPhase) = "Succeeded" /\ pods[id].phase = "Running"
               THEN \A fail \in Failures \ {"get", "list"} : DoesNothing(k, fail)
               ELSE /\ \A fail \in Failures \ {"get", "list", "delete"} :
                         \/ ReconcileOn(pvcs, pods, k, fail).pods[id] = NoPod
                         \/ ReconcileOn(pvcs, pods, k, fail).pods[id].deleting
                    /\ ReconcileOn(pvcs, pods, k, "delete").err
                           = Wrap(ApiFailure, "error deleting clone source pod")

\* a Reconcile call has returned nil in cleanup and the Running source pod
\* and the finalizer are still there
C22_Witness ==
    \E k \in Keys : \E id \in PodIds :
        /\ InCleanup(k) /\ LiveSourcePod(k, id)
        /\ Ann(pvcs[k], AnnPodPhase) = "Succeeded" /\ pods[id].phase = "Running"
        /\ last.op = "Reconcile" /\ last.key = k /\ last.err = Nil /\ ~last.cloneOfSet

\* cleanup for k finds a live source pod and does not wait for it
CleanupDeletes(k, id) ==
    /\ InCleanup(k) /\ LiveSourcePod(k, id)
    /\ ~(Ann(pvcs[k], AnnPodPhase) = "Succeeded" /\ pods[id].phase = "Running")

\* C23: in cleanup, a not-found answer to the delete of the source pod counts
\* as success: the call goes on, removes the finalizer from the PVC and
\* returns nil; any other error of the delete makes Reconcile return an
\* error, with the finalizer still on the PVC, the PVC not updated and the
\* pod as it was.
C23_DeleteNotFoundIsSuccess ==
    \A k \in Keys : \A id \in PodIds :
        CleanupDeletes(k, id)
            => /\ LET r == ReconcileOn(pvcs, pods, k, "deleteNotFound")
                  IN /\ r.err = Nil
                     /\ ~HasCloneFinalizer(r.stored)
                     /\ r.stored.annotations = pvcs[k].annotations
               /\ LET r == ReconcileOn(pvcs, pods, k, "delete")
                  IN /\ r.err # Nil
                     /\ r.stored = pvcs[k]
                     /\ r.pods = pods
                     /\ r.events = 0

\* a Reconcile call in cleanup has returned an error and the finalizer and
\* the live source pod it was to delete are still there
C23_Witness ==
    \E k \in Keys : \E id \in PodIds :
        /\ CleanupDeletes(k, id)
        /\ last.op = "Reconcile" /\ last.key = k /\ last.err = ApiFailure

\* the upload pod of the PVC counts as ready: PodReady is true, or is false
\* while PodPhase is Succeeded
UploadPodReady(pvc) ==
    \/ Ann(pvc, AnnPodReady) \in {"1", "t", "T", "TRUE", "true", "True"}
    \/ /\ Ann(pvc, AnnPodReady) \in {"0", "f", "F", "FALSE", "false", "False"}
       /\ Ann(pvc, AnnPodPhase) = "Succeeded"

\* the value of the PodRestarts annotation of a PVC, 0 when it has none
RestartsOf(pvc) == Atoi(AnnSeq(pvc, AnnPodRestarts))

\* no source pod of k has been restarted more often than PodRestarts says
RestartsRecorded(k) ==
    \A id \in RequestedPods(k) :
        pods[id].containerStatuses # <<>>
            => pods[id].containerStatuses[1] <= RestartsOf(pvcs[k])

\* C24: on the update path the PVC is written only when it differs from its
\* snapshot. A call that ends with a changed PVC when the update is accepted
\* returns the error, with the PVC unchanged, when the update is rejected;
\* a call that ends with the same PVC sends no update, so a rejecting API
\* changes nothing of its result; and with the finalizer present, PodPhase
\* not Succeeded and no restart count above PodRestarts the PVC is the same.
C24_WriteOnlyWhenChanged ==
    \A k \in Keys :
        (Relevant(pvcs[k]) /\ UploadPodReady(pvcs[k]))
            => LET accepted == ReconcileOn(pvcs, pods, k, "none")
                   rejected == ReconcileOn(pvcs, pods, k, "update")
               IN /\ (accepted.err = Nil /\ accepted.stored # pvcs[k])
                        => /\ rejected.err = ApiFailure
                           /\ rejected.stored = pvcs[k]
                  /\ (accepted.err = Nil /\ accepted.stored = pvcs[k])
                        => rejected = accepted
                  /\ (/\ accepted.err = Nil
                      /\ HasCloneFinalizer(pvcs[k])
                      /\ Ann(pvcs[k], AnnPodPhase) # "Succeeded"
                      /\ RestartsRecorded(k))
                        => /\ accepted.stored = pvcs[k]
                           /\ rejected = accepted

\* Reconcile has returned nil for a PVC with the finalizer whose source pod
\* was restarted once and whose PodRestarts annotation says so
C24_Witness ==
    \E k \in Keys : \E id \in PodIds :
        /\ Relevant(pvcs[k]) /\ UploadPodReady(pvcs[k]) /\ HasCloneFinalizer(pvcs[k])
        /\ Ann(pvcs[k], AnnPodPhase) # "Succeeded"
        /\ RequestedPods(k) = {id}
        /\ pods[id].containerStatuses = <<1>>
        /\ RestartsOf(pvcs[k]) = 1
        /\ last.op = "Reconcile" /\ last.key = k /\ last.err = Nil

\* the larger of two numbers
Max(a, b) == IF a >= b THEN a ELSE b

\* C25: PodRestarts is a high-water mark. A Reconcile call that is served and
\* finds the source pod of a relevant PVC with container statuses leaves
\* PodRestarts at the larger of its earlier value and the restart count of
\* the pod's first container, and no Reconcile step lowers the value of
\* PodRestarts, also when the pod found has a smaller restart count.
C25_PodRestartsHighWaterMark ==
    /\ [](\A k \in Keys : \A id \in PodIds :
             (/\ Relevant(pvcs[k]) /\ UploadPodReady(pvcs[k])
              /\ RequestedPods(k) = {id}
              /\ pods[id].containerStatuses # <<>>)
                 => LET r == ReconcileOn(pvcs, pods, k, "none")
                    IN /\ r.err = Nil
                       /\ RestartsOf(r.stored)
                              = Max(RestartsOf(pvcs[k]), pods[id].containerStatuses[1]))
    /\ [][\A k \in Keys :
             (last'.op = "Reconcile" /\ pvcs[k] # NoPVC /\ pvcs'[k] # NoPVC)
                 => RestartsOf(pvcs'[k]) >= RestartsOf(pvcs[k])]_vars

\* Reconcile has returned nil for a PVC whose PodRestarts says 1 and whose
\* source pod, in another namespace than the first one, was never restarted
C25_Witness ==
    \E k \in Keys : \E id \in PodIds :
        /\ Relevant(pvcs[k]) /\ UploadPodReady(pvcs[k])
        /\ RequestedPods(k) = {id}
        /\ pods[id].containerStatuses = <<0>>
        /\ RestartsOf(pvcs[k]) = 1
        /\ last.op = "Reconcile" /\ last.key = k /\ last.err = Nil

\* C26: every change of the state of a source pod (its phase, or its removal)
\* puts the reconcile request of its target PVC on the queue, so that a
\* cleanup that waited for a Running source pod is retried without a change
\* of the PVC.
C26_PodChangeEnqueuesTarget ==
    [][\A k \in Keys : \A id \in SourcePodsIn(pods, k) :
          (last'.op = "external" /\ pods'[id] # pods[id])
              => RequestOf(k) \in output'.requests]_vars

\* the ids of the pods that carry the name of the source pod of key k
PodIdsOf(k) == {id \in PodIds : id[2] = getCloneSourcePodName(TargetMeta(k))}

\* a store of pods without the pods of the other keys than k
OnlyPodsOf(po, k) == [id \in PodIds |-> IF id \in PodIdsOf(k) THEN po[id] ELSE NoPod]

\* a store of PVCs without the PVCs of the other keys than k
OnlyPVCOf(pv, k) == [j \in Keys |-> IF j = k THEN pv[j] ELSE NoPVC]

\* what a Reconcile call for k does to the PVC and the pods of k, and what it
\* returns
OutcomeFor(pv, po, k, fail) ==
    LET r == ReconcileOn(pv, po, k, fail)
    IN [stored |-> r.stored, pods |-> OnlyPodsOf(r.pods, k),
        events |-> r.events, err |-> r.err]

\* C27: Reconcile calls of different keys do not interfere. A call for key k
\* creates, deletes or changes only pods that carry the label of k's uid,
\* and only k's PVC and events; and what it does to them and returns is what
\* it would do and return if the PVCs and pods of the other keys were not
\* there, also when both targets clone the same source PVC.
C27_KeysDoNotInterfere ==
    /\ [](\A k \in Keys : \A fail \in Failures :
             \A r \in {ReconcileOn(pvcs, pods, k, fail)} :
                /\ \A id \in PodIds :
                      r.pods[id] # pods[id]
                          => /\ id \in PodIdsOf(k)
                             /\ \/ pods[id] = NoPod
                                \/ pods[id].labels[CloneUniqueID]
                                       = getCloneSourcePodName(TargetMeta(k))
                /\ [stored |-> r.stored, pods |-> OnlyPodsOf(r.pods, k),
                    events |-> r.events, err |-> r.err]
                       = OutcomeFor(OnlyPVCOf(pvcs, k), OnlyPodsOf(pods, k), k, fail))
    /\ [][\A k \in Keys :
             (last'.op = "Reconcile" /\ last'.key = k)
                 => \A j \in Keys \ {k} :
                       /\ pvcs'[j] = pvcs[j]
                       /\ events'[j] = events[j]
                       /\ \A id \in PodIdsOf(j) : pods'[id] = pods[id]]_vars

\* both targets clone a/s, both have a live source pod in namespace a, and a
\* Reconcile call for one of them has returned nil
C27_Witness ==
    /\ \A k \in Keys :
          /\ Relevant(pvcs[k])
          /\ pvcs[k].annotations[AnnCloneRequest] = <<"a", "/", "s">>
          /\ \E id \in PodIdsOf(k) : id[1] = <<"a">> /\ pods[id] # NoPod /\ ~pods[id].deleting
    /\ last.op = "Reconcile" /\ last.err = Nil

\* C28: when the PVC of the request does not exist, and when it is not
\* relevant and does not carry the finalizer, a served Reconcile call returns
\* nil and leaves the cluster as it is; for a PVC that is not relevant and
\* carries the finalizer the call is a cleanup, never the create/update path:
\* it creates no pod, records no event, leaves the annotations as they are
\* and, when nothing fails, either waits for a Running source pod or ends
\* with the finalizer removed.
C28_NotRelevantNoOpOrCleanup ==
    \A k \in Keys : \A fail \in Failures \ {"get"} :
        /\ pvcs[k] = NoPVC => DoesNothing(k, fail)
        /\ (pvcs[k] # NoPVC /\ ~Relevant(pvcs[k]) /\ ~HasCloneFinalizer(pvcs[k]))
              => DoesNothing(k, fail)
        /\ InCleanup(k)
              => \A r \in {ReconcileOn(pvcs, pods, k, fail)} :
                    /\ r.events = 0
                    /\ CreatedBy(k, fail) = {}
                    /\ r.stored.annotations = pvcs[k].annotations
                    /\ (fail = "none" /\ r.err = Nil)
                          => \/ ~HasCloneFinalizer(r.stored)
                             \/ \E id \in PodIds :
                                   /\ LiveSourcePod(k, id)
                                   /\ pods[id].phase = "Running"
                                   /\ Ann(pvcs[k], AnnPodPhase) = "Succeeded"
                                   /\ r.stored = pvcs[k] /\ r.pods = pods

\* a Reconcile call has returned nil for a PVC with CloneOf from which a
\* cleanup has taken the finalizer
C28_Witness ==
    \E k \in Keys :
        /\ pvcs[k] # NoPVC /\ ~Relevant(pvcs[k]) /\ ~HasCloneFinalizer(pvcs[k])
        /\ Ann(pvcs[k], AnnCloneOf) = "true"
        /\ last.op = "Reconcile" /\ last.key = k /\ last.err = Nil

\* C29: a CloneSucceeded event is recorded only by a Reconcile call that also
\* persists CloneOf=true on the PVC, so a target PVC gets at most one
\* CloneSucceeded event, also when PVC updates fail and the key is retried.
C29_OneEventWithCloneOf ==
    /\ [][\A k \in Keys :
             events'[k] > events[k]
                 => /\ last'.op = "Reconcile" /\ last'.key = k /\ last'.cloneOfSet
                    /\ Ann(pvcs'[k], AnnCloneOf) = "true"]_vars
    /\ [](\A k \in Keys : events[k] <= 1)

\* the PVC of k carries the finalizer and is marked for deletion before its
\* clone completed
DeletedWhileCloning(k) ==
    /\ pvcs[k] # NoPVC
    /\ pvcs[k].deleting
    /\ HasCloneFinalizer(pvcs[k])
    /\ ~HasAnnotation(pvcs[k], AnnCloneOf)

\* the finalizer is off the PVC of k (or the PVC is gone) and no source pod
\* of k is left that is not terminating
Released(k) ==
    /\ pvcs[k] = NoPVC \/ ~HasCloneFinalizer(pvcs[k])
    /\ \A id \in SourcePodsIn(pods, k) : pods[id].deleting

\* C30: a target PVC that carries the finalizer and is marked for deletion
\* before its clone completed is released in the end, under fair delivery of
\* reconcile requests: the reconciler deletes the source pod and removes the
\* finalizer.
C30_DeletedPVCReleased ==
    \A k \in SpecKeys : DeletedWhileCloning(k) ~> Released(k)

\* validateCloneToken has returned for a target PVC that carries a token
CloneTokenChecked ==
    /\ input.fn = "validateCloneToken"
    /\ output.fn = "validateCloneToken"
    /\ HasAnnotation(input.target, AnnCloneToken)

\* the token of the call or of the request is one the apiserver signed and
\* that is within its validity window
WellSigned(tok) == tok.state = "ok"

\* C31: tokens are not interchangeable between the two components.  The clone
\* reconciler's validateCloneToken never returns nil for a token of the
\* upload issuer, whatever its payload, and a request whose token is of the
\* clone issuer is answered 401 by the upload proxy before its claims are
\* looked at: it passes neither the token check nor the claims check, is not
\* polled for and is not proxied.
C31_TokensNotInterchangeable ==
    /\ (CloneTokenChecked
          /\ input.target.annotations[AnnCloneToken].issuer = UploadTokenIssuer)
        => output.err # Nil
    /\ (input.fn = "handleUploadRequest"
          /\ input.token.issuer = CloneTokenIssuer)
        => /\ ~output.validated
           /\ ~output.claims
           /\ output.polls = 0
           /\ output.requests = 0
           /\ output.status = IF output.matched THEN StatusUnauthorized
                                                ELSE StatusBadRequest

\* validateCloneToken has rejected a well-signed token of the upload issuer
\* whose payload is the one of the clone of the source into the target
C31_Witness ==
    /\ CloneTokenChecked
    /\ WellSigned(input.target.annotations[AnnCloneToken])
    /\ input.target.annotations[AnnCloneToken].issuer = UploadTokenIssuer
    /\ validateCloneToken(input.source,
            [input.target EXCEPT !.annotations[AnnCloneToken].issuer = CloneTokenIssuer]) = Nil
    /\ output.err # Nil

====
